---- MODULE Spec2Model ----
(***************************************************************************)
(* Model of lp-bot: the interaction dispatcher (src/src/main.rs), the      *)
(* commands it runs, the module builder, the command table and the         *)
(* completion chain.                                                       *)
(***************************************************************************)
EXTENDS Naturals, Sequences, FiniteSets, TLC

(***************************************************************************)
(* Bounds                                                                  *)
(***************************************************************************)
MaxInteractions == 1   \* interactions dispatched in one run
MaxDeclared == 2       \* dependency declarations drawn for the modules whose
                       \* add_dependencies is not in the source, in total
MaxRequests == 2       \* top-level module requests made of one builder
MaxDepth == 6          \* nesting of module requests followed
MaxInserts == 3        \* single insertions into one command table
MaxResolvers == 3      \* completion resolvers pushed onto one chain
MaxInstance == 2       \* instance numbers in a registry drawn for lookups
MaxReady == 2          \* Ready events the gateway sends in one run
MaxTasks == 2          \* handler tasks running concurrently
MaxRows == 2           \* rows in the autoreact table
MaxMessages == 3       \* messages that can be quoted
MaxPolls == 1          \* ready polls created while reactions are handled
MaxStarts == 2         \* start reactions on poll messages

Interactions == 1..MaxInteractions

VARIABLES
    mainPc,         \* position of main: startup, client, start, running, exited
    built,          \* what Handler::new has constructed, in order
    failed,         \* the construction that returned an error, "" when none
    guildEnv,       \* the value of GUILD_ID in the environment
    readyPc,        \* position of the ready handler, 0 when it is not running
    readyRuns,      \* Ready events handled so far
    lastReady,      \* how the latest run of ready ended
    registrations,  \* command definitions the platform holds: (key, to)
    pc,             \* position of each interaction in interaction_create
    interaction,    \* the interaction handed to interaction_create
    result,         \* what process_command returned for it
    sent,           \* transport requests made for the interaction, in order
    sentAtReturn,   \* sent, as it stood when process_command returned
    dependencies,   \* module type -> the module types its add_dependencies requests
    module_map,     \* ModuleMap: entries (type, instance)
    stack,          \* module requests in progress, innermost last
    constructed,    \* module types in the order their init completed
    observed,       \* (requester, type, instance) seen when a request returned
    requests,       \* top-level requests made so far
    requested,      \* the type asked for by the latest top-level request
    buildError,     \* an init failed and the error was returned
    registered,     \* module types in the order their register_commands ran
    looked,         \* the latest registry lookup: type, registry before, result
    commands,       \* the command table: entries (key, runner)
    inserted,       \* the runners inserted into the table, in order
    completion_handlers, \* the completion resolvers, in registration order
    resolving,      \* state of CompletionChain.resolve
    acKey,          \* command key of the autocomplete interaction being resolved
    cursor,         \* index of the resolver to invoke next
    invoked,        \* (resolver index, outcome) of each invocation, in order
    acSent,         \* transport requests made for that autocomplete interaction
    db,             \* holder of the store mutex, 0 when it is free
    quote,          \* rows of the quote table
    guilds,         \* rows of the guild table
    autoreact,      \* rows of the autoreact table, in insertion order
    reacts_cache,   \* ReactsCache: guild -> the autoreacts cached for it
    cache_readers,  \* tasks holding a read guard of the cache lock
    task,           \* each handler task: what it runs and where it is
    ready_polls,    \* PendingPolls: the queue of pending ready polls
    poll_messages,  \* the poll message of each ready_poll interaction
    countdowns,     \* the countdowns started, in order
    lastAdd,        \* (poll, user): the user's latest yes event was an add
    recreated,      \* polls whose entry a reaction handler has queued again
    lost_edits      \* polls with an edit of the message that failed

mainVars == <<mainPc, built, failed>>
readyVars == <<guildEnv, readyPc, readyRuns, lastReady, registrations>>
dispatchVars == <<pc, interaction, result, sent, sentAtReturn>>
builderVars == <<dependencies, module_map, stack, constructed, observed,
                 requests, requested, buildError, registered, looked>>

tableVars == <<commands, inserted>>
chainVars == <<completion_handlers, resolving, acKey, cursor, invoked, acSent>>
coreVars == <<mainVars, readyVars, dispatchVars, builderVars, tableVars, chainVars>>
dbVars == <<db, quote, guilds, autoreact, reacts_cache, cache_readers>>
storeVars == <<db, quote, guilds, autoreact, reacts_cache, cache_readers, task>>
pollVars == <<ready_polls, poll_messages, countdowns, lastAdd, recreated,
              lost_edits>>

vars == <<mainPc, built, failed,
          guildEnv, readyPc, readyRuns, lastReady, registrations, pc, interaction, result, sent, sentAtReturn,
          dependencies, module_map, stack, constructed, observed,
          requests, requested, buildError, registered, looked,
          commands, inserted,
          completion_handlers, resolving, acKey, cursor, invoked, acSent,
          db, quote, guilds, autoreact, reacts_cache, cache_readers, task,
          ready_polls, poll_messages, countdowns, lastAdd, recreated,
          lost_edits>>

(***************************************************************************)
(* Transport surface.  A request is an initial interaction response        *)
(* (message, deferred message or autocomplete result) or a follow-up.  The *)
(* platform takes one initial response per interaction and refuses any     *)
(* further one; a follow-up needs an acknowledged interaction.  A request  *)
(* may also be lost in the network.                                        *)
(***************************************************************************)
InitialKinds == {"ChannelMessageWithSource", "DeferredChannelMessageWithSource",
                 "Autocomplete"}

EMPTY == "empty"
EPHEMERAL == "EPHEMERAL"

Acknowledged(s) ==
    \E k \in 1..Len(s) : s[k].kind \in InitialKinds /\ s[k].status = "ok"

Deliver(s, kind, netOk) ==
    IF ~netOk THEN "network"
    ELSE IF kind \in InitialKinds
         THEN (IF Acknowledged(s) THEN "rejected" ELSE "ok")
         ELSE (IF Acknowledged(s) THEN "ok" ELSE "rejected")

TransportError(status) ==
    IF status = "rejected" THEN "Interaction has already been acknowledged"
    ELSE "http error"

Request(by, kind, content, flags, status) ==
    [by |-> by, kind |-> kind, content |-> content, flags |-> flags,
     status |-> status]

(***************************************************************************)
(* CommandResponse and anyhow::Result<CommandResponse>                     *)
(***************************************************************************)
None == [tag |-> "None", text |-> ""]
Public(s) == [tag |-> "Public", text |-> s]
Private(s) == [tag |-> "Private", text |-> s]
Err(e) == [tag |-> "Err", text |-> e]
Unset == [tag |-> "Unset", text |-> ""]
\* the task unwound with a panic and returned nothing
Panicked(e) == [tag |-> "Panic", text |-> e]

(***************************************************************************)
(* The body of a command as the steps it takes in order.  A call is a      *)
(* fallible await on a collaborator (store, metadata provider, REST call   *)
(* that is no interaction response); bail is an unconditional early error; *)
(* respond is create_interaction_response followed by `?`.                 *)
(***************************************************************************)
Call(e) == [op |-> "call", err |-> e, kind |-> "", content |-> "", flags |-> ""]
Bail(e) == [op |-> "bail", err |-> e, kind |-> "", content |-> "", flags |-> ""]
Respond(kind, content, flags) ==
    [op |-> "respond", err |-> "", kind |-> kind, content |-> content,
     flags |-> flags]

\* a panic!, or an unwrap/expect of a value that is absent
Panic(e) == [op |-> "panic", err |-> e, kind |-> "", content |-> "", flags |-> ""]
\* a request made inside a callee whose error the caller catches: one that
\* goes through, and one that the network loses
Send(kind, content, flags) ==
    [op |-> "send", err |-> "", kind |-> kind, content |-> content,
     flags |-> flags]
Lose(kind, content, flags) ==
    [op |-> "lose", err |-> "", kind |-> kind, content |-> content,
     flags |-> flags]

Body(ops, ret) == [ops |-> ops, ret |-> ret]

(***************************************************************************)
(* Reading an option of the invocation.  An argument is present with the   *)
(* declared type, missing, or present with another type.                   *)
(***************************************************************************)
ArgStates == {"present", "missing", "mistyped"}

\* SlashCommand::opt with the typed getters str_opt, int_opt, ...: Some when
\* the option is there and has the type, None otherwise.
opt(arg) == IF arg = "present" THEN "Some" ELSE "None"

\* Option::unwrap / Option::expect
unwrap(o, e) == IF o = "None" THEN <<Panic(e)>> ELSE <<>>

\* the getter the derive macro generates for a required field
required_getter(arg) ==
    IF arg = "present" THEN <<>> ELSE <<Panic("Value is required")>>

(***************************************************************************)
(* Responder::respond: the interaction response, then a fetch of the       *)
(* message just created.                                                   *)
(***************************************************************************)
respond(content, flags) ==
    <<Respond("ChannelMessageWithSource", content, flags),
      Call("get_interaction_response failed")>>

(***************************************************************************)
(* SlashCommand::run_lp.  in: what the arguments and the collaborators     *)
(* hold for this run.                                                      *)
(***************************************************************************)
run_lp(in) ==
    IF in.tooManyLinks THEN <<Bail("Too many links!")>>
    ELSE
      <<Call("album lookup failed")>>
      \o (IF in.invalidTime THEN <<Bail("Invalid time")>> ELSE <<>>)
      \o (IF in.invalidTime THEN <<>>
          ELSE
            (IF in.webhook
             THEN <<Call("get_webhook_from_url failed"),
                    Call("webhook execute failed")>>
             ELSE respond("resp_content", EMPTY))
            \o (IF in.create_threads
                THEN <<Call("message.channel failed")>>
                     \o (IF ~in.webhook /\ in.chan = "PublicThread"
                         THEN <<Call("edit_thread failed")>>
                         ELSE IF in.chan = "Text"
                              THEN <<Call("create_public_thread failed")>>
                              ELSE <<>>)
                ELSE <<>>)
            \o (IF in.webhook
                THEN respond("LP created",
                             IF in.private THEN EPHEMERAL ELSE EMPTY)
                ELSE <<>>))

(***************************************************************************)
(* Handler::process_command: the body run for a command name.              *)
(***************************************************************************)
CommandNames ==
    {"lp", "album", "relative", "setrole", "setcreatethreads", "setwebhook",
     "quote", "bday", "bdays", "add_autoreact", "remove_autoreact", "ping"}

\* the arm `_ => bail!("Unknown command")`
UnknownCommand_Ignored == Body(<<>>, None)

UnknownCommand == Body(<<Bail("Unknown command")>>, None)

process_command(cmd, in) ==
    IF ~cmd.guild THEN Body(<<Bail("Must be run in a server")>>, None)
    ELSE CASE cmd.name = "lp" -> Body(run_lp(in), None)
      [] cmd.name = "album" ->
            Body(unwrap(opt(in.arg), "called Option::unwrap() on a None value")
                 \o <<Call("lookup_album failed")>>
                 \o (IF in.found
                     THEN <<Call("artist_top_tags failed")>>
                     ELSE <<Bail("Not found")>>),
                 Public("album info"))
      [] cmd.name = "relative" ->
            Body(unwrap(opt(in.arg), "missing time"), Public("time is in <t:R>"))
      [] cmd.name = "setrole" ->
            Body(<<Call("set_role failed")>>, Public("LP role changed"))
      [] cmd.name = "setcreatethreads" ->
            Body(<<Call("set_should_create_threads failed")>>,
                 Public("LPBot will create threads"))
      [] cmd.name = "setwebhook" ->
            Body(<<Call("set_webhook failed")>>, Private("LPBot will use a webhook"))
      [] cmd.name = "quote" ->
            IF cmd.message
            THEN Body(<<Call("add_quote failed")>>, Public("Quote saved"))
            ELSE Body((IF opt(in.arg) = "Some"
                       THEN <<Call("fetch_quote failed")>>
                       ELSE <<Call("get_random_quote failed")>>)
                      \o (IF in.found
                          THEN <<Call("to_user failed"),
                                 Respond("ChannelMessageWithSource",
                                         "quote embed", EMPTY)>>
                          ELSE <<Bail("No such quote")>>),
                      None)
      [] cmd.name = "bday" ->
            Body(unwrap(opt(in.arg), "called Option::unwrap() on a None value")
                 \o <<Call("add_birthday failed")>>, Private("Birthday set!"))
      [] cmd.name = "bdays" ->
            Body(<<Call("get_bdays failed"),
                   Respond("ChannelMessageWithSource", "birthdays embed", EMPTY)>>,
                 None)
      [] cmd.name = "add_autoreact" ->
            Body(unwrap(opt(in.arg), "called Option::unwrap() on a None value")
                 \o <<Call("add_autoreact failed")>>, Private("Autoreact added"))
      [] cmd.name = "remove_autoreact" ->
            Body(unwrap(opt(in.arg), "called Option::unwrap() on a None value")
                 \o <<Call("remove_autoreact failed")>>,
                 Private("Autoreact removed"))
      [] OTHER -> UnknownCommand

(***************************************************************************)
(* GetAotys, a command with a derived runner.  get_aotys: what it sends    *)
(* and whether it returns an error; run: defer, get_aotys, and a follow-up *)
(* with the error when get_aotys failed.                                   *)
(***************************************************************************)
AotyOutcomes == {"ok", "empty", "failed", "send_failed"}

get_aotys(in) ==
    CASE in.aotys = "ok" ->
            [ops |-> <<Send("Followup", "Top albums", EMPTY)>>, failed |-> FALSE]
      [] in.aotys = "empty" ->
            [ops |-> <<Send("Followup", "No albums found", EMPTY)>>,
             failed |-> FALSE]
      [] in.aotys = "send_failed" ->
            [ops |-> <<Lose("Followup", "Top albums", EMPTY)>>, failed |-> TRUE]
      [] OTHER -> [ops |-> <<>>, failed |-> TRUE]

GetAotys_run(in) ==
    Body(<<Respond("DeferredChannelMessageWithSource", "", EMPTY)>>
         \o get_aotys(in).ops
         \o (IF get_aotys(in).failed
             THEN <<Respond("Followup", "get aotys failed", EMPTY)>>
             ELSE <<>>),
         None)

\* CommandRunner::run of the derived runner: the typed argument object is
\* decoded from the invocation, then its run is called.
runner_run(in) ==
    Body(required_getter(in.arg) \o GetAotys_run(in).ops, GetAotys_run(in).ret)

(***************************************************************************)
(* Running a body: steps in order; the step at failAt fails (0: none       *)
(* does), a bail always fails, a refused response fails, and the first     *)
(* failure is returned as the error.  A panic unwinds the task: nothing is *)
(* returned.                                                               *)
(***************************************************************************)
RECURSIVE RunOps(_, _, _, _, _)
RunOps(ops, k, failAt, by, s) ==
    IF k > Len(ops) THEN [sent |-> s, err |-> "", panic |-> FALSE]
    ELSE LET o == ops[k] IN
      CASE o.op = "bail" -> [sent |-> s, err |-> o.err, panic |-> FALSE]
        [] o.op = "panic" -> [sent |-> s, err |-> o.err, panic |-> TRUE]
        [] o.op = "call" ->
             IF failAt = k THEN [sent |-> s, err |-> o.err, panic |-> FALSE]
             ELSE RunOps(ops, k + 1, failAt, by, s)
        [] o.op = "send" ->
             RunOps(ops, k + 1, failAt, by,
                    Append(s, Request(by, o.kind, o.content, o.flags,
                                      Deliver(s, o.kind, TRUE))))
        [] o.op = "lose" ->
             RunOps(ops, k + 1, failAt, by,
                    Append(s, Request(by, o.kind, o.content, o.flags,
                                      Deliver(s, o.kind, FALSE))))
        [] OTHER ->
             LET st == Deliver(s, o.kind, failAt # k)
                 s2 == Append(s, Request(by, o.kind, o.content, o.flags, st))
             IN IF st # "ok"
                THEN [sent |-> s2, err |-> TransportError(st), panic |-> FALSE]
                ELSE RunOps(ops, k + 1, failAt, by, s2)

Run(body, failAt, by, s) ==
    LET r == RunOps(body.ops, 1, failAt, by, s)
    IN [sent |-> r.sent,
        ret |-> IF r.panic THEN Panicked(r.err)
                ELSE IF r.err # "" THEN Err(r.err) ELSE body.ret]

(***************************************************************************)
(* Handler::process_autocomplete: Ok(()) or an error; the caller unwraps.  *)
(***************************************************************************)
Ok == [tag |-> "Ok", text |-> ""]

process_autocomplete(ac, in) ==
    IF ~ac.guild THEN Body(<<Bail("Must be run in a server")>>, Ok)
    ELSE CASE ac.name = "lp" ->
            Body(<<Respond("Autocomplete", "album choices", EMPTY)>>, Ok)
      [] ac.name = "quote" ->
            IF in.value
            THEN Body(<<Call("list_quotes failed"),
                        Respond("Autocomplete", "quote choices", EMPTY)>>, Ok)
            ELSE Body(<<Respond("Autocomplete", "no choices", EMPTY)>>, Ok)
      [] ac.name = "remove_autoreact" ->
            Body(<<Call("autocomplete_autoreact failed")>>
                 \o (IF in.focused
                     THEN <<Respond("Autocomplete", "autoreact choices", EMPTY)>>
                     ELSE <<>>),
                 Ok)
      [] OTHER -> Body(<<Respond("Autocomplete", "no choices", EMPTY)>>, Ok)

(***************************************************************************)
(* Handler::interaction_create: how the dispatcher turns the result of     *)
(* process_command into its own reply.                                     *)
(***************************************************************************)
contents_and_flags_Swapped(r) ==
    CASE r.tag = "Public" -> [content |-> r.text, flags |-> EPHEMERAL]
      [] r.tag = "Private" -> [content |-> r.text, flags |-> EMPTY]
      [] OTHER -> [content |-> r.text, flags |-> EPHEMERAL]

contents_and_flags(r) ==
    CASE r.tag = "Public" -> [content |-> r.text, flags |-> EMPTY]
      [] r.tag = "Private" -> [content |-> r.text, flags |-> EPHEMERAL]
      [] OTHER -> [content |-> r.text, flags |-> EPHEMERAL]

DispatcherReplies_ErrDropped(r) ==
    IF r.tag \in {"None", "Err"} THEN <<>>
    ELSE <<Respond("ChannelMessageWithSource",
                   contents_and_flags(r).content, contents_and_flags(r).flags)>>

DispatcherReplies_NoneAnswered(r) ==
    <<Respond("ChannelMessageWithSource",
              contents_and_flags(r).content, contents_and_flags(r).flags)>>

DispatcherReplies(r) ==
    IF r.tag = "None" THEN <<>>
    ELSE <<Respond("ChannelMessageWithSource",
                   contents_and_flags(r).content, contents_and_flags(r).flags)>>

(***************************************************************************)
(* What the environment may supply.                                        *)
(***************************************************************************)
\* the commands dispatched through their runner
RunnerNames == {"aoty"}

RunnerInputs == [arg : ArgStates, aotys : AotyOutcomes]

InteractionTypes == {"ApplicationCommand", "Autocomplete", "Other"}

InteractionValues ==
    [type : {"ApplicationCommand"}, name : CommandNames, guild : BOOLEAN,
     message : BOOLEAN]
    \cup [type : {"Autocomplete"}, name : CommandNames, guild : BOOLEAN,
          message : {FALSE}]
    \cup [type : {"ApplicationCommand"}, name : RunnerNames, guild : BOOLEAN,
          message : {FALSE}]
    \cup [type : {"Other"}, name : {""}, guild : {TRUE}, message : {FALSE}]

NoInteraction == [type |-> "", name |-> "", guild |-> FALSE, message |-> FALSE]

CommandInputs ==
    [found : BOOLEAN, tooManyLinks : BOOLEAN, invalidTime : BOOLEAN,
     webhook : BOOLEAN, create_threads : BOOLEAN,
     chan : {"Text", "PublicThread", "Other"}, private : BOOLEAN,
     arg : ArgStates]

\* The inputs a command reads: run_lp reads the lp fields, album and quote
\* read found and their argument, the rest read their argument at most.
CommandInputsFor(cmd) ==
    CASE cmd.name = "lp" ->
            {in \in CommandInputs : in.found /\ in.arg = "present"}
      [] cmd.name \in {"album", "quote"} ->
            {in \in CommandInputs :
                /\ ~in.tooManyLinks /\ ~in.invalidTime /\ ~in.webhook
                /\ ~in.create_threads /\ in.chan = "Text" /\ ~in.private}
      [] OTHER ->
            {in \in CommandInputs :
                /\ in.found /\ ~in.tooManyLinks /\ ~in.invalidTime /\ ~in.webhook
                /\ ~in.create_threads /\ in.chan = "Text" /\ ~in.private}

AutocompleteInputs == [value : BOOLEAN, focused : BOOLEAN]

(***************************************************************************)
(* CommandKey and the command table (a HashMap from key to runner).        *)
(***************************************************************************)
CommandTypes == {"ChatInput", "Message", "User"}

Key(n, t) == <<n, t>>

NoRunner == [name |-> "", kind |-> "", id |-> ""]

\* CommandRunner::name of a runner: its key.
name(runner) == Key(runner.name, runner.kind)

insert_NameOnly(table, key, runner) ==
    {e \in table : e.key[1] # key[1]} \cup {[key |-> key, runner |-> runner]}

insert(table, key, runner) ==
    {e \in table : e.key # key} \cup {[key |-> key, runner |-> runner]}

get(table, key) ==
    IF \E e \in table : e.key = key
    THEN (CHOOSE e \in table : e.key = key).runner
    ELSE NoRunner

\* the closure `add` of register_commands
add(table, runner) == insert(table, name(runner), runner)

RECURSIVE AddAll(_, _, _)
AddAll(table, runners, k) ==
    IF k > Len(runners) THEN table
    ELSE AddAll(add(table, runners[k]), runners, k + 1)

Derived(n) == [name |-> n, kind |-> "ChatInput", id |-> "derive"]

Runners ==
    <<Derived("lp"), Derived("album"), Derived("setrole"),
      Derived("setcreatethreads"), Derived("setwebhook"),
      Derived("setpinboardwebhook"), Derived("bday"), Derived("relative"),
      Derived("add_autoreact"), Derived("remove_autoreact"), Derived("aoty"),
      Derived("soty"), Derived("ready_poll"), Derived("fake_quote")>>

(***************************************************************************)
(* Modules and their dependency declarations.  ModLp::add_dependencies is  *)
(* in the source; Spotify overrides nothing and so declares none; the      *)
(* declarations of Lastfm, Bandcamp and AlbumLookup are drawn, so that     *)
(* every graph they can complete ModLp's into is covered, cycles included. *)
(***************************************************************************)
Modules ==
    {"ModLp", "Lastfm", "Spotify", "Bandcamp", "AlbumLookup", "SpotifyOAuth"}

ModLp_add_dependencies == <<"Lastfm", "Spotify", "Bandcamp", "AlbumLookup">>
Spotify_add_dependencies == <<>>

\* Spotify<AuthCodeSpotify>: its init returns an error whatever happens, the
\* instance has to be built by the caller and handed to the builder.
InitCanSucceed(m) == m # "SpotifyOAuth"

\* Module::register_commands of each module: ModLp registers Lp and pushes
\* complete_lp; the others under src/ leave the stores alone.
RegisteredRunners(m) ==
    IF m = "ModLp" THEN <<Derived("lp")>> ELSE <<>>

RegisteredResolvers(m) ==
    IF m = "ModLp"
    THEN <<[fn |-> "complete_lp", key |-> Key("lp", "ChatInput")]>>
    ELSE <<>>

Drawn == {"Lastfm", "Bandcamp", "AlbumLookup"}

Range(f) == {f[x] : x \in DOMAIN f}

Declarations ==
    {q \in UNION {[1..n -> Modules] : n \in 0..MaxDeclared} :
        Cardinality(Range(q)) = Len(q)}

DependencyGraphs ==
    {[m \in Modules |->
        CASE m = "ModLp" -> ModLp_add_dependencies
          [] m \in {"Spotify", "SpotifyOAuth"} -> Spotify_add_dependencies
          [] OTHER -> d[m]] :
     d \in {e \in [Drawn -> Declarations] :
              Len(e["Lastfm"]) + Len(e["Bandcamp"]) + Len(e["AlbumLookup"])
                 <= MaxDeclared}}

\* m reaches n along declared dependencies in one or more steps.
RECURSIVE ReachIn(_, _, _, _)
ReachIn(g, from, n, fuel) ==
    IF fuel = 0 THEN FALSE
    ELSE \E d \in Range(g[from]) : d = n \/ ReachIn(g, d, n, fuel - 1)

Reaches(g, m, n) == ReachIn(g, m, n, Cardinality(Modules))

Acyclic(g) == \A m \in Modules : ~Reaches(g, m, m)

(***************************************************************************)
(* ModuleMap                                                               *)
(***************************************************************************)
Present(map, m) == \E e \in map : e.type = m

Instance(map, m) == (CHOOSE e \in map : e.type = m).instance

Insert(map, m, inst) ==
    {e \in map : e.type # m} \cup {[type |-> m, instance |-> inst]}

\* Handler::module::<T>(): the instance of the type, or an error value.
NotRegistered == [tag |-> "Err", text |-> "module not registered", instance |-> 0]

Found(inst) == [tag |-> "Ok", text |-> "", instance |-> inst]

module_OrDefault(map, m) ==
    IF Present(map, m) THEN Found(Instance(map, m)) ELSE Found(0)

module(map, m) ==
    IF Present(map, m) THEN Found(Instance(map, m)) ELSE NotRegistered

NoLookup == [type |-> "", before |-> {}, result |-> NotRegistered]

(***************************************************************************)
(* HandlerBuilder::module::<M>(): return at once when M is present;        *)
(* otherwise M::add_dependencies(builder), then M::init, then              *)
(* register_commands and the insertion.                                    *)
(***************************************************************************)
Frame(m) == [module |-> m, next |-> 1]

NeedsBuild_Always(map, m) == TRUE

NeedsBuild(map, m) == ~Present(map, m)

DependenciesDone_Early(f) == TRUE

DependenciesDone(f) == f.next > Len(dependencies[f.module])

Returned_Stuck(f) == f

Returned(f) == [f EXCEPT !.next = @ + 1]

\* The stack after the innermost request has returned to its caller.
Pop(st) ==
    IF Len(st) = 1 THEN <<>>
    ELSE [k \in 1..(Len(st) - 1) |->
            IF k = Len(st) - 1 THEN Returned(st[k]) ELSE st[k]]

Caller(st) == IF Len(st) = 1 THEN "main" ELSE st[Len(st) - 1].module

\* The builder and the stores exist until the handler is built from them:
\* modules are requested and commands registered during startup only.
Starting_Always(p) == TRUE

Starting(p) == p = "startup"

\* The dependency declarations that are in the source, the others empty.
BotGraph ==
    [m \in Modules |->
        IF m = "ModLp" THEN ModLp_add_dependencies ELSE <<>>]

BuilderIdle ==
    /\ dependencies = [m \in Modules |-> <<>>]
    /\ module_map = {}
    /\ stack = <<>>
    /\ constructed = <<>>
    /\ observed = {}
    /\ requests = 0
    /\ requested = ""
    /\ buildError = FALSE
    /\ registered = <<>>
    /\ looked = NoLookup

BuilderInit ==
    /\ dependencies \in DependencyGraphs
    /\ module_map = {}
    /\ stack = <<>>
    /\ constructed = <<>>
    /\ observed = {}
    /\ requests = 0
    /\ requested = ""
    /\ buildError = FALSE
    /\ registered = <<>>
    /\ looked = NoLookup

\* main asks the builder for module m.
with_module(m) ==
    /\ Starting(mainPc)
    /\ stack = <<>>
    /\ ~buildError
    /\ requests < MaxRequests
    /\ requests' = requests + 1
    /\ requested' = m
    /\ IF NeedsBuild(module_map, m)
       THEN /\ stack' = <<Frame(m)>>
            /\ UNCHANGED observed
       ELSE /\ observed' = observed \cup
                 {[by |-> "main", type |-> m, instance |-> Instance(module_map, m)]}
            /\ UNCHANGED stack
    /\ UNCHANGED <<dependencies, module_map, constructed, buildError>>
    /\ UNCHANGED <<registered, looked>>
    /\ UNCHANGED <<mainVars, readyVars, storeVars, pollVars, dispatchVars, tableVars, chainVars>>

\* add_dependencies of the innermost module asks for its next dependency.
add_dependency ==
    /\ Starting(mainPc)
    /\ stack # <<>>
    /\ LET f == stack[Len(stack)] IN
       /\ f.next <= Len(dependencies[f.module])
       /\ ~DependenciesDone(f)
       /\ LET d == dependencies[f.module][f.next] IN
          IF NeedsBuild(module_map, d)
          THEN /\ Len(stack) < MaxDepth
               /\ stack' = Append(stack, Frame(d))
               /\ UNCHANGED observed
          ELSE /\ stack' = [stack EXCEPT ![Len(stack)] = Returned(f)]
               /\ observed' = observed \cup
                    {[by |-> f.module, type |-> d,
                      instance |-> Instance(module_map, d)]}
    /\ UNCHANGED <<dependencies, module_map, constructed, requests, requested,
                   buildError>>
    /\ UNCHANGED <<registered, looked>>
    /\ UNCHANGED <<mainVars, readyVars, storeVars, pollVars, dispatchVars, tableVars, chainVars>>

\* The register step: the module's register_commands has run.
Registered_Skipped(reg, m) == reg

Registered(reg, m) == Append(reg, m)

\* M::init succeeds: register_commands, insertion, return to the caller.
init_ok ==
    /\ Starting(mainPc)
    /\ stack # <<>>
    /\ LET f == stack[Len(stack)]
           inst == Len(constructed) + 1 IN
       /\ DependenciesDone(f)
       /\ InitCanSucceed(f.module)
       /\ constructed' = Append(constructed, f.module)
       /\ registered' = Registered(registered, f.module)
       /\ commands' = AddAll(commands, RegisteredRunners(f.module), 1)
       /\ inserted' = inserted \o RegisteredRunners(f.module)
       /\ completion_handlers' =
             completion_handlers \o RegisteredResolvers(f.module)
       /\ module_map' = Insert(module_map, f.module, inst)
       /\ observed' = observed \cup
            {[by |-> Caller(stack), type |-> f.module, instance |-> inst]}
       /\ stack' = Pop(stack)
    /\ UNCHANGED <<dependencies, requests, requested, buildError, looked>>
    /\ UNCHANGED <<resolving, acKey, cursor, invoked, acSent>>
    /\ UNCHANGED <<mainVars, readyVars, storeVars, pollVars, dispatchVars>>

\* An instance built by the caller is handed to the builder before any
\* module is requested: it becomes the instance of its type, and its
\* register_commands is run.
Supplied == 0

Suppliable == {"SpotifyOAuth"}

pre_supply(m) ==
    /\ Starting(mainPc)
    /\ stack = <<>>
    /\ ~buildError
    /\ requests = 0
    /\ ~Present(module_map, m)
    /\ registered' = Registered(registered, m)
    /\ commands' = AddAll(commands, RegisteredRunners(m), 1)
    /\ inserted' = inserted \o RegisteredRunners(m)
    /\ completion_handlers' = completion_handlers \o RegisteredResolvers(m)
    /\ module_map' = Insert(module_map, m, Supplied)
    /\ UNCHANGED <<dependencies, stack, constructed, observed, requests,
                   requested, buildError, looked>>
    /\ UNCHANGED <<resolving, acKey, cursor, invoked, acSent>>
    /\ UNCHANGED <<mainVars, readyVars, storeVars, pollVars, dispatchVars>>

\* M::init fails: the error goes up through every `?` to main.
init_failed ==
    /\ Starting(mainPc)
    /\ stack # <<>>
    /\ DependenciesDone(stack[Len(stack)])
    /\ buildError' = TRUE
    /\ stack' = <<>>
    /\ UNCHANGED <<dependencies, module_map, constructed, observed, requests,
                   requested>>
    /\ UNCHANGED <<registered, looked>>
    /\ UNCHANGED <<mainVars, readyVars, storeVars, pollVars, dispatchVars, tableVars, chainVars>>

\* The registries a finished startup can leave: one instance per type, and
\* with ModLp everything ModLp::add_dependencies asks for.
Registries ==
    {r \in SUBSET [type : Modules, instance : 1..MaxInstance] :
        /\ \A e1, e2 \in r : e1.type = e2.type => e1 = e2
        /\ Present(r, "ModLp") =>
              \A d \in Range(ModLp_add_dependencies) : Present(r, d)}

RegistryInit ==
    /\ dependencies = [m \in Modules |-> <<>>]
    /\ module_map \in Registries
    /\ stack = <<>>
    /\ constructed = <<>>
    /\ observed = {}
    /\ requests = 0
    /\ requested = ""
    /\ buildError = FALSE
    /\ registered = <<>>
    /\ looked = NoLookup

\* A command asks the registry for the module of type m, as Lp::run does
\* with `handler.module()?`.
lookup(m) ==
    /\ looked' = [type |-> m, before |-> module_map,
                  result |-> module(module_map, m)]
    /\ UNCHANGED <<dependencies, module_map, stack, constructed, observed,
                   requests, requested, buildError, registered>>
    /\ UNCHANGED <<mainVars, readyVars, storeVars, pollVars, dispatchVars, tableVars, chainVars>>

RegistryNext == \E m \in Modules : lookup(m)

BuilderNext ==
    \/ \E m \in Suppliable : pre_supply(m)
    \/ \E m \in Modules : with_module(m)
    \/ add_dependency
    \/ init_ok
    \/ init_failed


(***************************************************************************)
(* Filling the command table                                               *)
(***************************************************************************)
\* Runners a module may register one at a time.
OtherRunners ==
    [name : {"quote", "lp"}, kind : {"ChatInput", "Message"},
     id : {"first", "second"}]

\* the table once commands::register_commands has filled it
TableRegistered ==
    /\ commands = AddAll({}, Runners, 1)
    /\ inserted = Runners

TableInit ==
    /\ commands = {}
    /\ inserted = <<>>

\* commands::register_commands on a table.
register_commands ==
    /\ Starting(mainPc)
    /\ \A k \in 1..Len(inserted) : inserted[k].id # "derive"
    /\ commands' = AddAll(commands, Runners, 1)
    /\ inserted' = inserted \o Runners
    /\ UNCHANGED <<mainVars, readyVars, storeVars, pollVars, dispatchVars, builderVars, chainVars>>

\* One more runner is inserted.
register(runner) ==
    /\ Starting(mainPc)
    /\ Cardinality({k \in 1..Len(inserted) : inserted[k].id # "derive"})
          < MaxInserts
    /\ commands' = add(commands, runner)
    /\ inserted' = Append(inserted, runner)
    /\ UNCHANGED <<mainVars, readyVars, storeVars, pollVars, dispatchVars, builderVars, chainVars>>

TableNext ==
    \/ register_commands
    \/ \E r \in OtherRunners : register(r)

(***************************************************************************)
(* Completion resolvers and CompletionChain.resolve                        *)
(***************************************************************************)
False == [tag |-> "false", text |-> ""]
True == [tag |-> "true", text |-> ""]

Resolver(fn, key) == [fn |-> fn, key |-> key]

Resolvers ==
    {Resolver("complete_lp", Key("lp", "ChatInput")),
     Resolver("complete_quote", Key("quote", "ChatInput")),
     Resolver("complete_autoreact", Key("remove_autoreact", "ChatInput"))}

AutocompleteKeys ==
    {Key("lp", "ChatInput"), Key("quote", "ChatInput"),
     Key("remove_autoreact", "ChatInput"), Key("album", "ChatInput")}

NoKey == Key("", "")

Mine_Always(resolver, key) == TRUE

\* ModLp::complete_lp: `if key != ("lp", CommandType::ChatInput)`
Mine(resolver, key) == key = resolver.key

complete_ReplyFirst(resolver, key) ==
    Body(<<Respond("Autocomplete", resolver.fn, EMPTY)>>,
         IF Mine(resolver, key) THEN True ELSE False)

\* ModLp::complete_lp, and the resolvers of the other modules after it.
complete(resolver, key) ==
    IF ~Mine(resolver, key) THEN Body(<<>>, False)
    ELSE Body(<<Call("autocomplete failed"),
                Respond("Autocomplete", resolver.fn, EMPTY)>>, True)

ChainInit ==
    /\ completion_handlers = <<>>
    /\ resolving = "idle"
    /\ acKey = NoKey
    /\ cursor = 0
    /\ invoked = <<>>
    /\ acSent = <<>>

\* register_commands of a module: completions.push(resolver)
push(resolver) ==
    /\ Starting(mainPc)
    /\ resolving = "idle"
    /\ Len(completion_handlers) < MaxResolvers
    /\ completion_handlers' = Append(completion_handlers, resolver)
    /\ UNCHANGED <<resolving, acKey, cursor, invoked, acSent>>
    /\ UNCHANGED <<mainVars, readyVars, storeVars, pollVars, dispatchVars, builderVars, tableVars>>

\* An autocomplete interaction for key arrives and resolve begins.
resolve_begin(key) ==
    /\ resolving = "idle"
    /\ resolving' = "running"
    /\ acKey' = key
    /\ cursor' = 1
    /\ UNCHANGED <<completion_handlers, invoked, acSent>>
    /\ UNCHANGED <<mainVars, readyVars, storeVars, pollVars, dispatchVars, builderVars, tableVars>>

\* resolve calls the next resolver and looks at what it reports.
resolve_step ==
    /\ resolving = "running"
    /\ cursor <= Len(completion_handlers)
    /\ LET body == complete(completion_handlers[cursor], acKey) IN
       \E failAt \in 0..Len(body.ops) :
          LET r == Run(body, failAt, cursor, acSent) IN
          /\ acSent' = r.sent
          /\ invoked' = Append(invoked, [resolver |-> cursor, outcome |-> r.ret.tag])
          /\ resolving' = CASE r.ret.tag = "true" -> "claimed"
                            [] r.ret.tag = "false" -> "running"
                            [] OTHER -> "failed"
          /\ cursor' = IF r.ret.tag = "false" THEN cursor + 1 ELSE cursor
    /\ UNCHANGED <<completion_handlers, acKey>>
    /\ UNCHANGED <<mainVars, readyVars, storeVars, pollVars, dispatchVars, builderVars, tableVars>>

\* No resolver claimed: the dispatcher answers with an empty suggestion set.
resolve_unclaimed ==
    /\ resolving = "running"
    /\ cursor > Len(completion_handlers)
    /\ LET body == Body(<<Respond("Autocomplete", "no choices", EMPTY)>>, Ok) IN
       \E failAt \in 0..Len(body.ops) :
          acSent' = Run(body, failAt, "dispatcher", acSent).sent
    /\ resolving' = "unclaimed"
    /\ UNCHANGED <<completion_handlers, acKey, cursor, invoked>>
    /\ UNCHANGED <<mainVars, readyVars, storeVars, pollVars, dispatchVars, builderVars, tableVars>>

ChainNext ==
    \/ \E r \in Resolvers : push(r)
    \/ \E k \in AutocompleteKeys : resolve_begin(k)
    \/ resolve_step
    \/ resolve_unclaimed


(***************************************************************************)
(* main and Handler::new.  Handler::new constructs the handler's parts in  *)
(* order, each fallible one followed by `?`; main returns when it fails,   *)
(* builds the client around the handler and starts it.  Events reach the   *)
(* handler only from the started client.                                   *)
(***************************************************************************)
Components == <<"db", "Spotify", "Bandcamp", "Lastfm", "reacts_cache">>

Fallible == {"db", "Spotify", "reacts_cache"}

MainInit ==
    /\ mainPc = "startup"
    /\ built = <<>>
    /\ failed = ""

\* main after Handler::new returned Err: it prints the error and returns
Abort_Continue(p) == p

Abort(p) == "exited"

\* the client delivers events once client.start() runs
Dispatching_Anytime(p) == TRUE

Dispatching(p) == p = "running"

\* Handler::new constructs its next part.
construct ==
    /\ mainPc = "startup"
    /\ Len(built) < Len(Components)
    /\ built' = Append(built, Components[Len(built) + 1])
    /\ mainPc' = IF Len(built') = Len(Components) THEN "client" ELSE "startup"
    /\ UNCHANGED failed
    /\ UNCHANGED <<readyVars, storeVars, pollVars, dispatchVars, builderVars, tableVars, chainVars>>

\* The construction of the next part returns an error.
construct_failed ==
    /\ mainPc = "startup"
    /\ Len(built) < Len(Components)
    /\ Components[Len(built) + 1] \in Fallible
    /\ failed' = Components[Len(built) + 1]
    /\ mainPc' = Abort(mainPc)
    /\ UNCHANGED built
    /\ UNCHANGED <<readyVars, storeVars, pollVars, dispatchVars, builderVars, tableVars, chainVars>>

\* main reads its environment and builds the client; each expect may panic.
client_build ==
    /\ mainPc = "client"
    /\ mainPc' \in {"start", "exited"}
    /\ UNCHANGED <<built, failed>>
    /\ UNCHANGED <<readyVars, storeVars, pollVars, dispatchVars, builderVars, tableVars, chainVars>>

\* client.start(): the client runs, or returns an error and main ends.
client_start ==
    /\ mainPc = "start"
    /\ mainPc' \in {"running", "exited"}
    /\ UNCHANGED <<built, failed>>
    /\ UNCHANGED <<readyVars, storeVars, pollVars, dispatchVars, builderVars, tableVars, chainVars>>

(***************************************************************************)
(* Handler::ready: the command definitions are registered with the         *)
(* platform each time the gateway sends Ready.  The first block goes to    *)
(* the guild named by GUILD_ID in one bulk call that replaces that guild's *)
(* commands; the others are created globally one call at a time.  Every    *)
(* call is unwrapped, so a failure ends the handler with a panic.          *)
(***************************************************************************)
GuildIds == {"g1", "g2"}

GuildEnvValues == GuildIds \cup {"", "abc"}

Descriptor(n, t, scoped) == [key |-> Key(n, t), scoped |-> scoped]

Descriptors ==
    <<Descriptor("relative", "ChatInput", TRUE),
      Descriptor("ping", "ChatInput", TRUE),
      Descriptor("bday", "ChatInput", TRUE),
      Descriptor("bdays", "ChatInput", TRUE),
      Descriptor("add_autoreact", "ChatInput", TRUE),
      Descriptor("remove_autoreact", "ChatInput", TRUE),
      Descriptor("lp", "ChatInput", FALSE),
      Descriptor("album", "ChatInput", FALSE),
      Descriptor("setrole", "ChatInput", FALSE),
      Descriptor("setcreatethreads", "ChatInput", FALSE),
      Descriptor("quote", "Message", FALSE),
      Descriptor("quote", "ChatInput", FALSE),
      Descriptor("setwebhook", "ChatInput", FALSE)>>

Scoped == {k \in 1..Len(Descriptors) : Descriptors[k].scoped}

\* where a descriptor is registered: GuildId::set_application_commands for
\* the guild block, create_global_application_command for the others
Target_Global(d, guild) == "global"

Target(d, guild) == IF d.scoped THEN guild ELSE "global"

Registration(d, guild) == [key |-> d.key, to |-> Target(d, guild)]

ReadyInit ==
    /\ guildEnv \in GuildEnvValues
    /\ readyPc = 0
    /\ readyRuns = 0
    /\ lastReady = ""
    /\ registrations = {}

ReadyIdle ==
    /\ guildEnv = "g1"
    /\ readyPc = 0
    /\ readyRuns = 0
    /\ lastReady = ""
    /\ registrations = {}

\* The gateway sends Ready and the handler starts.
ready_begin ==
    /\ readyPc = 0
    /\ readyRuns < MaxReady
    /\ readyRuns' = readyRuns + 1
    /\ readyPc' = 1
    /\ lastReady' = ""
    /\ UNCHANGED <<guildEnv, registrations>>
    /\ UNCHANGED <<mainVars, storeVars, pollVars, dispatchVars, builderVars, tableVars, chainVars>>

\* GUILD_ID is read and parsed; both steps are expect.
ready_guild_id ==
    /\ readyPc = 1
    /\ IF guildEnv \in GuildIds
       THEN readyPc' = 2 /\ UNCHANGED lastReady
       ELSE readyPc' = 0 /\ lastReady' = "panicked"
    /\ UNCHANGED <<guildEnv, readyRuns, registrations>>
    /\ UNCHANGED <<mainVars, storeVars, pollVars, dispatchVars, builderVars, tableVars, chainVars>>

\* GuildId::set_application_commands(..).await.unwrap()
ready_set_application_commands ==
    /\ readyPc = 2
    /\ \/ /\ registrations' =
                {r \in registrations : r.to # guildEnv}
                \cup {Registration(Descriptors[k], guildEnv) : k \in Scoped}
          /\ readyPc' = 3
          /\ UNCHANGED lastReady
       \/ /\ readyPc' = 0
          /\ lastReady' = "panicked"
          /\ UNCHANGED registrations
    /\ UNCHANGED <<guildEnv, readyRuns>>
    /\ UNCHANGED <<mainVars, storeVars, pollVars, dispatchVars, builderVars, tableVars, chainVars>>

\* ApplicationCommand::create_global_application_command(..).await.unwrap(),
\* for the next descriptor after the guild block
ready_create_global_application_command ==
    /\ readyPc >= 3
    /\ LET k == Cardinality(Scoped) + (readyPc - 2) IN
       \/ /\ registrations' =
                registrations \cup {Registration(Descriptors[k], guildEnv)}
          /\ IF k = Len(Descriptors)
             THEN readyPc' = 0 /\ lastReady' = "completed"
             ELSE readyPc' = readyPc + 1 /\ UNCHANGED lastReady
       \/ /\ readyPc' = 0
          /\ lastReady' = "panicked"
          /\ UNCHANGED registrations
    /\ UNCHANGED <<guildEnv, readyRuns>>
    /\ UNCHANGED <<mainVars, storeVars, pollVars, dispatchVars, builderVars, tableVars, chainVars>>

ReadyNext ==
    \/ ready_begin
    \/ ready_guild_id
    \/ ready_set_application_commands
    \/ ready_create_global_application_command

(***************************************************************************)
(* Actions of the dispatcher                                               *)
(***************************************************************************)
DispatchInit ==
    /\ pc = [i \in Interactions |-> "waiting"]
    /\ interaction = [i \in Interactions |-> NoInteraction]
    /\ result = [i \in Interactions |-> Unset]
    /\ sent = [i \in Interactions |-> <<>>]
    /\ sentAtReturn = [i \in Interactions |-> <<>>]

\* The gateway hands an interaction to interaction_create.
Receive(i) ==
    /\ Dispatching(mainPc)
    /\ pc[i] = "waiting"
    /\ \E v \in InteractionValues : interaction' = [interaction EXCEPT ![i] = v]
    /\ pc' = [pc EXCEPT ![i] = "received"]
    /\ UNCHANGED <<result, sent, sentAtReturn>>
    /\ UNCHANGED <<mainVars, readyVars, storeVars, pollVars, builderVars, tableVars, chainVars>>

\* interaction_create, autocomplete branch: process_autocomplete(..).unwrap()
Autocomplete(i) ==
    /\ pc[i] = "received"
    /\ interaction[i].type = "Autocomplete"
    /\ \E in \in AutocompleteInputs :
         LET body == process_autocomplete(interaction[i], in) IN
         \E failAt \in 0..Len(body.ops) :
            LET r == Run(body, failAt, "dispatcher", sent[i]) IN
            /\ sent' = [sent EXCEPT ![i] = r.sent]
            /\ result' = [result EXCEPT ![i] = r.ret]
            /\ pc' = [pc EXCEPT ![i] =
                         IF r.ret.tag \in {"Err", "Panic"} THEN "panicked"
                         ELSE "done"]
    /\ UNCHANGED <<interaction, sentAtReturn>>
    /\ UNCHANGED <<mainVars, readyVars, storeVars, pollVars, builderVars, tableVars, chainVars>>

\* interaction_create, command branch: self.process_command(cmd).await
ProcessCommand(i) ==
    /\ pc[i] = "received"
    /\ interaction[i].type = "ApplicationCommand"
    /\ interaction[i].name \in CommandNames
    /\ \E in \in CommandInputsFor(interaction[i]) :
         LET body == process_command(interaction[i], in) IN
         \E failAt \in 0..Len(body.ops) :
            LET r == Run(body, failAt, "command", sent[i]) IN
            /\ sent' = [sent EXCEPT ![i] = r.sent]
            /\ sentAtReturn' = [sentAtReturn EXCEPT ![i] = r.sent]
            /\ result' = [result EXCEPT ![i] = r.ret]
            /\ pc' = [pc EXCEPT ![i] =
                         IF r.ret.tag = "Panic" THEN "panicked" ELSE "executed"]
    /\ UNCHANGED interaction
    /\ UNCHANGED <<mainVars, readyVars, storeVars, pollVars, builderVars, tableVars, chainVars>>

\* The command is found in the command table and its runner is run.
RunCommand(i) ==
    /\ pc[i] = "received"
    /\ interaction[i].type = "ApplicationCommand"
    /\ get(commands, Key(interaction[i].name, "ChatInput")) # NoRunner
    /\ interaction[i].name \in RunnerNames
    /\ \E in \in RunnerInputs :
         LET body == runner_run(in) IN
         \E failAt \in 0..Len(body.ops) :
            LET r == Run(body, failAt, "command", sent[i]) IN
            /\ sent' = [sent EXCEPT ![i] = r.sent]
            /\ sentAtReturn' = [sentAtReturn EXCEPT ![i] = r.sent]
            /\ result' = [result EXCEPT ![i] = r.ret]
            /\ pc' = [pc EXCEPT ![i] =
                         IF r.ret.tag = "Panic" THEN "panicked" ELSE "executed"]
    /\ UNCHANGED interaction
    /\ UNCHANGED <<mainVars, readyVars, storeVars, pollVars, builderVars, tableVars, chainVars>>

\* interaction_create, command branch: the match on the result and the
\* dispatcher's own create_interaction_response.
Reply(i) ==
    /\ pc[i] = "executed"
    /\ LET body == Body(DispatcherReplies(result[i]), Ok) IN
       \E failAt \in 0..Len(body.ops) :
          sent' = [sent EXCEPT ![i] = Run(body, failAt, "dispatcher", sent[i]).sent]
    /\ pc' = [pc EXCEPT ![i] = "done"]
    /\ UNCHANGED <<interaction, result, sentAtReturn>>
    /\ UNCHANGED <<mainVars, readyVars, storeVars, pollVars, builderVars, tableVars, chainVars>>

\* interaction_create: neither an autocomplete nor a command.
Ignore(i) ==
    /\ pc[i] = "received"
    /\ interaction[i].type = "Other"
    /\ pc' = [pc EXCEPT ![i] = "done"]
    /\ UNCHANGED <<interaction, result, sent, sentAtReturn>>
    /\ UNCHANGED <<mainVars, readyVars, storeVars, pollVars, builderVars, tableVars, chainVars>>

(***************************************************************************)
(* The persistent store (src/src/db.rs) and the autoreact cache            *)
(* (src/src/autoreact.rs).  Handlers run as concurrent tasks; the pc of a  *)
(* task is the await it is suspended at: "contents" and "react" are        *)
(* network round-trips, "lock" waits for the store mutex, "locked" holds   *)
(* it and is about to run the synchronous queries, "write" and "read" wait *)
(* for the cache lock.                                                     *)
(***************************************************************************)
Tasks == 1..MaxTasks
StoreGuilds == {1, 2}
\* the guilds whose members change settings and autoreacts
ActiveGuilds == {1}
QuoteMessages == 1..MaxMessages
\* the guild a message was posted in
message_guild(m) == IF m < MaxMessages THEN 1 ELSE 2
Triggers == {"a", "b"}
Emotes == {"x", "<bad"}
Fields == {"webhook"}
FieldValues == {"hook"}
Null == "NULL"
\* the words of an incoming message, lowercased
Contents == {<<"b", "a">>}
NetworkAwaits == {"contents", "react"}

Idle == [op |-> "", pc |-> "idle", args |-> <<>>, ret |-> Unset]
Free(i) == task[i].pc \in {"idle", "returned"}
Suspended(op, at, args) == [op |-> op, pc |-> at, args |-> args, ret |-> Unset]
\* a task that returned: its arguments are gone, its result is what the
\* caller sees
Return(t, r) == [op |-> "", pc |-> "returned", args |-> <<>>, ret |-> r]
Some(n) == [tag |-> "Some", text |-> n]

\* a lock guard going out of scope
Drop_Leaked(lock, i) == lock
Drop(lock, i) == IF lock = i THEN 0 ELSE lock

Unicode(s) == [tag |-> "Unicode", text |-> s]
parse_emote(s) == IF s = "<bad" THEN Err("invalid emote") ELSE Unicode(s)
AutoReact_new(trigger, emote) ==
    IF parse_emote(emote).tag = "Err" THEN parse_emote(emote)
    ELSE [trigger |-> trigger, emote |-> parse_emote(emote)]

\* autoreact::new: the cache is the stored rows grouped by guild
new(rows) ==
    [g \in StoreGuilds |->
        LET mine == SelectSeq(rows, LAMBDA r : r.guild_id = g)
        IN [k \in 1..Len(mine) |-> AutoReact_new(mine[k].trigger, mine[k].emote)]]

StoreInit ==
    /\ db = 0
    /\ quote = {}
    /\ guilds = {}
    /\ autoreact = <<>>
    /\ reacts_cache = new(<<>>)
    /\ cache_readers = {}
    /\ task = [i \in Tasks |-> Idle]

\* tokio::sync::Mutex::lock on Handler.db
lock(i) ==
    /\ task[i].pc = "lock"
    /\ db = 0
    /\ db' = i
    /\ task' = [task EXCEPT ![i].pc = "locked"]
    /\ UNCHANGED <<quote, guilds, autoreact, reacts_cache, cache_readers>>
    /\ UNCHANGED <<coreVars, pollVars>>

(*** quotes ***)
last_quote(rows, guild_id) ==
    LET numbers == {r.quote_number : r \in {q \in rows : q.guild_id = guild_id}}
    IN IF numbers = {} THEN 0
       ELSE CHOOSE n \in numbers : \A k \in numbers : k <= n

\* UNIQUE(guild_id, quote_number), UNIQUE(guild_id, message_id)
ConstraintViolation_Never(rows, row) == FALSE
ConstraintViolation(rows, row) ==
    \E q \in rows :
        /\ q.guild_id = row.guild_id
        /\ q.quote_number = row.quote_number \/ q.message_id = row.message_id

\* reaction_add with the quote emoji, or the quote command: add_quote starts
\* by fetching the message contents
add_quote(i, messages) ==
    /\ Free(i)
    /\ \E m \in messages :
          task' = [task EXCEPT ![i] =
                      Suspended("add_quote", "contents",
                                [guild_id |-> message_guild(m), message |-> m])]
    /\ UNCHANGED <<db, quote, guilds, autoreact, reacts_cache, cache_readers>>
    /\ UNCHANGED <<coreVars, pollVars>>

message_to_quote_contents(i) ==
    /\ task[i].pc = "contents"
    /\ \E ok \in BOOLEAN :
          task' = [task EXCEPT ![i] =
                      IF ok THEN [@ EXCEPT !.pc = "lock"]
                      ELSE Return(@, Err("http error"))]
    /\ UNCHANGED <<db, quote, guilds, autoreact, reacts_cache, cache_readers>>
    /\ UNCHANGED <<coreVars, pollVars>>

\* the transaction of add_quote, from db.transaction() to the guard's drop
add_quote_transaction(i) ==
    /\ task[i].pc = "locked"
    /\ task[i].op = "add_quote"
    /\ db = i
    /\ LET a == task[i].args
           n == last_quote(quote, a.guild_id) + 1
           row == [guild_id |-> a.guild_id, message_id |-> a.message,
                   quote_number |-> n]
       IN \E outcome \in {"ok", "sqlite error"} :
            IF outcome # "ok"
            THEN /\ task' = [task EXCEPT ![i] = Return(@, Err(outcome))]
                 /\ UNCHANGED quote
            ELSE IF ConstraintViolation(quote, row)
            THEN /\ task' = [task EXCEPT ![i] = Return(@, None)]
                 /\ UNCHANGED quote
            ELSE /\ task' = [task EXCEPT ![i] = Return(@, Some(n))]
                 /\ quote' = quote \cup {row}
    /\ db' = Drop(db, i)
    /\ UNCHANGED <<guilds, autoreact, reacts_cache, cache_readers>>
    /\ UNCHANGED <<coreVars, pollVars>>

(*** guild settings ***)
set_guild_field(i) ==
    /\ Free(i)
    /\ \E g \in ActiveGuilds, f \in Fields, v \in FieldValues :
          task' = [task EXCEPT ![i] =
                      Suspended("set_guild_field", "lock",
                                [guild_id |-> g, field |-> f, value |-> v,
                                 ensured |-> FALSE])]
    /\ UNCHANGED <<db, quote, guilds, autoreact, reacts_cache, cache_readers>>
    /\ UNCHANGED <<coreVars, pollVars>>

\* INSERT ... ON CONFLICT(id) DO NOTHING, then the guard drops at the return
ensure_guild_table(i) ==
    /\ task[i].pc = "locked"
    /\ task[i].op = "set_guild_field"
    /\ ~task[i].args.ensured
    /\ db = i
    /\ \E ok \in BOOLEAN :
          IF ok
          THEN /\ guilds' =
                     IF \E r \in guilds : r.id = task[i].args.guild_id THEN guilds
                     ELSE guilds \cup {[id |-> task[i].args.guild_id,
                                       fields |-> [f \in Fields |-> Null]]}
               /\ task' = [task EXCEPT ![i].pc = "lock",
                                       ![i].args.ensured = TRUE]
          ELSE /\ UNCHANGED guilds
               /\ task' = [task EXCEPT ![i] = Return(@, Err("sqlite error"))]
    /\ db' = Drop(db, i)
    /\ UNCHANGED <<quote, autoreact, reacts_cache, cache_readers>>
    /\ UNCHANGED <<coreVars, pollVars>>

set_guild_field_update(i) ==
    /\ task[i].pc = "locked"
    /\ task[i].op = "set_guild_field"
    /\ task[i].args.ensured
    /\ db = i
    /\ \E ok \in BOOLEAN :
          IF ok
          THEN /\ guilds' =
                     {IF r.id = task[i].args.guild_id
                      THEN [r EXCEPT !.fields[task[i].args.field] =
                                         task[i].args.value]
                      ELSE r : r \in guilds}
               /\ task' = [task EXCEPT ![i] = Return(@, Ok)]
          ELSE /\ UNCHANGED guilds
               /\ task' = [task EXCEPT ![i] = Return(@, Err("sqlite error"))]
    /\ db' = Drop(db, i)
    /\ UNCHANGED <<quote, autoreact, reacts_cache, cache_readers>>
    /\ UNCHANGED <<coreVars, pollVars>>

(*** autoreacts ***)
\* tokio::sync::RwLock::write on Handler.reacts_cache
Writable == cache_readers = {}

Vec_push(reacts, parsed) == Append(reacts, parsed)
retain_mut(reacts, trigger, emote) ==
    SelectSeq(reacts, LAMBDA ar : ar.trigger # trigger /\ ar.emote # emote)

add_autoreact(i, triggers) ==
    /\ Free(i)
    /\ Len(autoreact) < MaxRows
    /\ \E g \in ActiveGuilds, t \in triggers, e \in Emotes :
          task' = [task EXCEPT ![i] =
                      IF parse_emote(e).tag = "Err"
                      THEN Return(Suspended("add_autoreact", "",
                               [guild_id |-> g, trigger |-> t, emote |-> e]),
                               AutoReact_new(t, e))
                      ELSE Suspended("add_autoreact", "lock",
                               [guild_id |-> g, trigger |-> t, emote |-> e])]
    /\ UNCHANGED <<db, quote, guilds, autoreact, reacts_cache, cache_readers>>
    /\ UNCHANGED <<coreVars, pollVars>>

add_autoreact_insert(i) ==
    /\ task[i].pc = "locked"
    /\ task[i].op = "add_autoreact"
    /\ db = i
    /\ \E ok \in BOOLEAN :
          IF ok
          THEN /\ autoreact' = Append(autoreact, task[i].args)
               /\ task' = [task EXCEPT ![i].pc = "write"]
          ELSE /\ UNCHANGED autoreact
               /\ task' = [task EXCEPT ![i] = Return(@, Err("sqlite error"))]
    /\ db' = Drop(db, i)
    /\ UNCHANGED <<quote, guilds, reacts_cache, cache_readers>>
    /\ UNCHANGED <<coreVars, pollVars>>

add_autoreact_push(i) ==
    /\ task[i].pc = "write"
    /\ task[i].op = "add_autoreact"
    /\ Writable
    /\ LET a == task[i].args
       IN reacts_cache' = [reacts_cache EXCEPT ![a.guild_id] =
                              Vec_push(@, AutoReact_new(a.trigger, a.emote))]
    /\ task' = [task EXCEPT ![i] = Return(@, Ok)]
    /\ UNCHANGED <<db, quote, guilds, autoreact, cache_readers>>
    /\ UNCHANGED <<coreVars, pollVars>>

remove_autoreact(i, triggers) ==
    /\ Free(i)
    /\ \E g \in ActiveGuilds, t \in triggers, e \in Emotes :
          task' = [task EXCEPT ![i] =
                      Suspended("remove_autoreact", "lock",
                                [guild_id |-> g, trigger |-> t, emote |-> e])]
    /\ UNCHANGED <<db, quote, guilds, autoreact, reacts_cache, cache_readers>>
    /\ UNCHANGED <<coreVars, pollVars>>

\* the DELETE, the guard's drop, then parse_emote(emote)?
remove_autoreact_delete(i) ==
    /\ task[i].pc = "locked"
    /\ task[i].op = "remove_autoreact"
    /\ db = i
    /\ \E ok \in BOOLEAN :
          IF ok
          THEN /\ autoreact' = SelectSeq(autoreact, LAMBDA r : r # task[i].args)
               /\ task' = [task EXCEPT ![i] =
                              IF parse_emote(@.args.emote).tag = "Err"
                              THEN Return(@, parse_emote(@.args.emote))
                              ELSE [@ EXCEPT !.pc = "write"]]
          ELSE /\ UNCHANGED autoreact
               /\ task' = [task EXCEPT ![i] = Return(@, Err("sqlite error"))]
    /\ db' = Drop(db, i)
    /\ UNCHANGED <<quote, guilds, reacts_cache, cache_readers>>
    /\ UNCHANGED <<coreVars, pollVars>>

remove_autoreact_retain(i) ==
    /\ task[i].pc = "write"
    /\ task[i].op = "remove_autoreact"
    /\ Writable
    /\ LET a == task[i].args
       IN reacts_cache' = [reacts_cache EXCEPT ![a.guild_id] =
                              retain_mut(@, a.trigger, parse_emote(a.emote))]
    /\ task' = [task EXCEPT ![i] = Return(@, Ok)]
    /\ UNCHANGED <<db, quote, guilds, autoreact, cache_readers>>
    /\ UNCHANGED <<coreVars, pollVars>>

(*** Handler::message: add_reacts ***)
\* str::find: the position of the first occurrence, 0 when there is none
find(lower, trigger) ==
    IF \E k \in 1..Len(lower) : lower[k] = trigger
    THEN CHOOSE k \in 1..Len(lower) :
            /\ lower[k] = trigger
            /\ \A j \in 1..(k - 1) : lower[j] # trigger
    ELSE 0

RECURSIVE sort_by_key(_, _, _)
sort_by_key(indices, from, to) ==
    IF from > to THEN <<>>
    ELSE SelectSeq(indices, LAMBDA x : x[1] = from)
            \o sort_by_key(indices, from + 1, to)

\* the emotes add_reacts sends for a message, in sending order
Matches(reacts, lower) ==
    LET indices == SelectSeq([k \in 1..Len(reacts) |->
                                 <<find(lower, reacts[k].trigger), k>>],
                             LAMBDA x : x[1] # 0)
        sorted == sort_by_key(indices, 1, Len(lower))
    IN [k \in 1..Len(sorted) |-> reacts[sorted[k][2]].emote]

add_reacts(i) ==
    /\ Free(i)
    /\ \E g \in ActiveGuilds \cup {0}, c \in Contents :
          task' = [task EXCEPT ![i] =
                      Suspended("add_reacts", "read",
                                [guild_id |-> g, lower |-> c, todo |-> <<>>])]
    /\ UNCHANGED <<db, quote, guilds, autoreact, reacts_cache, cache_readers>>
    /\ UNCHANGED <<coreVars, pollVars>>

\* reacts_cache.read().await and the synchronous code up to the first react;
\* the read guard lives to the end of add_reacts
add_reacts_read(i) ==
    /\ task[i].pc = "read"
    /\ LET a == task[i].args
           todo == IF a.guild_id = 0 THEN <<>>
                   ELSE Matches(reacts_cache[a.guild_id], a.lower)
       IN IF todo = <<>>
          THEN /\ task' = [task EXCEPT ![i] = Return(@, Ok)]
               /\ UNCHANGED cache_readers
          ELSE /\ task' = [task EXCEPT ![i].pc = "react", ![i].args.todo = todo]
               /\ cache_readers' = cache_readers \cup {i}
    /\ UNCHANGED <<db, quote, guilds, autoreact, reacts_cache>>
    /\ UNCHANGED <<coreVars, pollVars>>

\* msg.react(...).await.context("could not add reaction")?
add_reacts_react(i) ==
    /\ task[i].pc = "react"
    /\ \E ok \in BOOLEAN :
          IF ok /\ Len(task[i].args.todo) > 1
          THEN /\ task' = [task EXCEPT ![i].args.todo = Tail(@)]
               /\ UNCHANGED cache_readers
          ELSE /\ task' = [task EXCEPT ![i] =
                              Return(@, IF ok THEN Ok
                                           ELSE Err("could not add reaction"))]
               /\ cache_readers' = cache_readers \ {i}
    /\ UNCHANGED <<db, quote, guilds, autoreact, reacts_cache>>
    /\ UNCHANGED <<coreVars, pollVars>>

(***************************************************************************)
(* Ready polls (serenity-command-handler/src/modules/ready_poll.rs).  The  *)
(* pending queue is locked for synchronous work only, so each critical     *)
(* section is one step; the message edit and the countdown that follow it  *)
(* are steps of their own.  Interaction ids are 1, 2, ... in the order the *)
(* polls are created.                                                      *)
(***************************************************************************)
MAX_POLLS == 20
YES == "<:FeelsGoodCrab:988509541069127780>"
NO == "<:FeelsBadCrab:988508541499342918>"
START == "<a:CrabRave:988508208240922635>"
COUNT == ":crab:"
GO == "<a:CrabRave:988508208240922635>"
Emojis == {YES, NO, START}

PollUsers == {1, 2}
\* the users who run the ready_poll command
Creators == {1}
\* handler.self_id: the bot's own user id
self_id == 3

\* the count_emote and go_emote options of a ready_poll command
PollOptions ==
    {[count_emote |-> "None", go_emote |-> "None"],
     [count_emote |-> ":one:", go_emote |-> ":go:"]}

username(user_id) == "<@" \o ToString(user_id) \o ">"

RECURSIVE join(_, _)
join(names, sep) ==
    IF names = <<>> THEN ""
    ELSE IF Len(names) = 1 THEN names[1]
    ELSE names[1] \o sep \o join(Tail(names), sep)

build_message(usernames) ==
    IF usernames = <<>> THEN "Ready?"
    ELSE "Ready? (" \o join(usernames, ", ")
            \o (IF Len(usernames) = 1 THEN " is" ELSE " are") \o " ready)"

\* Iterator::position: the first index that matches, 0 when none does
position(s, P(_)) ==
    IF \E k \in 1..Len(s) : P(s[k])
    THEN CHOOSE k \in 1..Len(s) : P(s[k]) /\ \A j \in 1..(k - 1) : ~P(s[j])
    ELSE 0

\* VecDeque
pop_back(q) == SubSeq(q, 1, Len(q) - 1)
push_front(q, e) == <<e>> \o q
remove(q, ndx) == SubSeq(q, 1, ndx - 1) \o SubSeq(q, ndx + 1, Len(q))

Entry(id, count_emote, go_emote) ==
    [id |-> id, count_emote |-> count_emote, go_emote |-> go_emote,
     usernames |-> <<>>]

\* while polls.len() >= MAX_POLLS { polls.pop_back(); }
RECURSIVE Evict(_)
Evict(polls) ==
    IF Len(polls) >= MAX_POLLS THEN Evict(pop_back(polls)) ELSE polls

\* the entry handle_ready_poll works on: the one of the interaction, or a new
\* one pushed to the front when there is none
Requeued(polls, id) == push_front(polls, Entry(id, "None", "None"))

\* usernames.contains(&username)
contains_Never(usernames, x) == FALSE
contains(usernames, x) == \E k \in 1..Len(usernames) : usernames[k] = x

unwrap_or(o, default) == IF o = "None" THEN default ELSE o

PollInit ==
    /\ ready_polls = <<>>
    /\ poll_messages = <<>>
    /\ countdowns = <<>>
    /\ lastAdd = {}
    /\ recreated = {}
    /\ lost_edits = {}

\* ReadyPoll::run: the entry is queued, then the "Ready?" response is created
\* and the bot adds its three reactions to it.  When the response fails there
\* is no poll message.
create_poll(i, cap, options, outcomes) ==
    /\ Free(i)
    /\ Len(poll_messages) < cap
    /\ \E o \in options, ok \in outcomes, u \in Creators :
          /\ ready_polls' =
                push_front(Evict(ready_polls),
                           Entry(Len(poll_messages) + 1, o.count_emote, o.go_emote))
          /\ poll_messages' =
                Append(poll_messages,
                       [user |-> u, content |-> IF ok THEN "Ready?" ELSE ""])
          /\ task' = [task EXCEPT ![i] =
                         Return(@, IF ok THEN None
                                   ELSE Err("error creating response"))]
    /\ UNCHANGED <<countdowns, lastAdd, recreated, lost_edits>>
    /\ UNCHANGED <<coreVars, dbVars>>

\* start reactions the handlers have taken up or are about to
Starts ==
    Len(countdowns)
    + Cardinality({j \in Tasks : /\ task[j].op = "handle_ready_poll"
                                 /\ task[j].pc \in {"polls", "crabdown"}
                                 /\ task[j].args.emoji = START})

\* reaction_add on a poll message: the handler has fetched the message and
\* waits for the queue.  (A failed fetch returns the error and changes
\* nothing.)
reaction_add(i, ids, users, emojis) ==
    /\ Free(i)
    /\ \E id \in ids, u \in users, e \in emojis :
          /\ id <= Len(poll_messages)
          /\ poll_messages[id].content # ""
          /\ e = START => Starts < MaxStarts
          /\ task' = [task EXCEPT ![i] =
                         Suspended("handle_ready_poll", "polls",
                                   [id |-> id, user |-> u, emoji |-> e,
                                    content |-> ""])]
    /\ UNCHANGED <<ready_polls, poll_messages, countdowns, lastAdd, recreated,
                   lost_edits>>
    /\ UNCHANGED <<coreVars, dbVars>>

\* ModPoll::handle_ready_poll from the lock to the drop of the guard
handle_ready_poll(i) ==
    /\ task[i].pc = "polls"
    /\ task[i].op = "handle_ready_poll"
    /\ LET a == task[i].args
           found == position(ready_polls, LAMBDA p : p.id = a.id)
           polls == IF found = 0 THEN Requeued(ready_polls, a.id) ELSE ready_polls
           ndx == IF found = 0 THEN 1 ELSE found
           count == polls[ndx].count_emote
           go == polls[ndx].go_emote
       IN /\ recreated' = IF found = 0 THEN recreated \cup {a.id} ELSE recreated
          /\ IF a.emoji = YES /\ a.user # self_id
             THEN LET usernames ==
                        IF contains(polls[ndx].usernames, username(a.user))
                        THEN polls[ndx].usernames
                        ELSE Append(polls[ndx].usernames, username(a.user))
                  IN /\ ready_polls' = [polls EXCEPT ![ndx].usernames = usernames]
                     /\ lastAdd' = lastAdd \cup {<<a.id, a.user>>}
                     /\ task' = [task EXCEPT ![i].pc = "edit",
                                    ![i].args.content = build_message(usernames)]
             ELSE IF poll_messages[a.id].user # a.user \/ a.emoji # START
             THEN /\ ready_polls' = polls
                  /\ UNCHANGED lastAdd
                  /\ task' = [task EXCEPT ![i] = Return(@, Ok)]
             ELSE /\ ready_polls' = remove(polls, ndx)
                  /\ UNCHANGED lastAdd
                  /\ task' = [task EXCEPT ![i].pc = "crabdown",
                                 ![i].args.content = <<count, go>>]
    /\ UNCHANGED <<poll_messages, countdowns, lost_edits>>
    /\ UNCHANGED <<coreVars, dbVars>>

\* msg.edit(...).await? after the guard was dropped
edit(i) ==
    /\ task[i].pc = "edit"
    /\ LET a == task[i].args IN
       \E ok \in BOOLEAN :
          IF ok
          THEN /\ poll_messages' = [poll_messages EXCEPT ![a.id].content = a.content]
               /\ UNCHANGED lost_edits
               /\ task' = [task EXCEPT ![i] = Return(@, Ok)]
          ELSE /\ UNCHANGED poll_messages
               /\ lost_edits' = lost_edits \cup {a.id}
               /\ task' = [task EXCEPT ![i] = Return(@, Err("http error"))]
    /\ UNCHANGED <<ready_polls, countdowns, lastAdd, recreated>>
    /\ UNCHANGED <<coreVars, dbVars>>

\* crabdown: "Starting 3s countdown", three counts and the go message
crabdown(i) ==
    /\ task[i].pc = "crabdown"
    /\ LET a == task[i].args IN
       countdowns' = Append(countdowns,
                            [id |-> a.id,
                             count_emote |-> unwrap_or(a.content[1], COUNT),
                             go_emote |-> unwrap_or(a.content[2], GO)])
    /\ \E ok \in BOOLEAN :
          task' = [task EXCEPT ![i] =
                      Return(@, IF ok THEN Ok ELSE Err("http error"))]
    /\ UNCHANGED <<ready_polls, poll_messages, lastAdd, recreated, lost_edits>>
    /\ UNCHANGED <<coreVars, dbVars>>

\* reaction_remove of the yes emoji on a poll message (any other emoji
\* returns before the queue is locked)
reaction_remove(i, ids, users) ==
    /\ Free(i)
    /\ \E id \in ids, u \in users :
          /\ id <= Len(poll_messages)
          /\ poll_messages[id].content # ""
          /\ task' = [task EXCEPT ![i] =
                         Suspended("handle_remove_react", "polls",
                                   [id |-> id, user |-> u, emoji |-> YES,
                                    content |-> ""])]
    /\ UNCHANGED <<ready_polls, poll_messages, countdowns, lastAdd, recreated,
                   lost_edits>>
    /\ UNCHANGED <<coreVars, dbVars>>

\* ModPoll::handle_remove_react from the lock to the drop of the guard
handle_remove_react(i) ==
    /\ task[i].pc = "polls"
    /\ task[i].op = "handle_remove_react"
    /\ LET a == task[i].args
           ndx == position(ready_polls, LAMBDA p : p.id = a.id)
           username_ndx ==
               IF ndx = 0 THEN 0
               ELSE position(ready_polls[ndx].usernames,
                             LAMBDA s : s = username(a.user))
       IN /\ lastAdd' = lastAdd \ {<<a.id, a.user>>}
          /\ IF username_ndx # 0
             THEN LET usernames == remove(ready_polls[ndx].usernames, username_ndx)
                  IN /\ ready_polls' =
                           [ready_polls EXCEPT ![ndx].usernames = usernames]
                     /\ task' = [task EXCEPT ![i].pc = "edit",
                                    ![i].args.content = build_message(usernames)]
             ELSE /\ UNCHANGED ready_polls
                  /\ task' = [task EXCEPT ![i] = Return(@, Ok)]
    /\ UNCHANGED <<poll_messages, countdowns, recreated, lost_edits>>
    /\ UNCHANGED <<coreVars, dbVars>>

\* polls created one after the other, and reactions of another user on the
\* message of the first, handled one at a time
QueueNext ==
    \/ create_poll(1, MAX_POLLS + 1, {[count_emote |-> "None", go_emote |-> "None"]},
                   {TRUE})
    \/ reaction_add(1, {1}, PollUsers \ Creators, Emojis)
    \/ handle_ready_poll(1)
    \/ edit(1)

PollNext ==
    \E i \in Tasks :
        \/ create_poll(i, MaxPolls, PollOptions, BOOLEAN)
        \/ reaction_add(i, 1..MaxPolls, PollUsers \cup {self_id}, Emojis)
        \/ handle_ready_poll(i)
        \/ reaction_remove(i, 1..MaxPolls, PollUsers)
        \/ handle_remove_react(i)
        \/ edit(i)
        \/ crabdown(i)

\* every handler that takes the store mutex
StoreNext ==
    \E i \in Tasks :
        \/ lock(i)
        \/ add_quote(i, {1})
        \/ message_to_quote_contents(i)
        \/ add_quote_transaction(i)
        \/ set_guild_field(i)
        \/ ensure_guild_table(i)
        \/ set_guild_field_update(i)
        \/ add_autoreact(i, {"a"})
        \/ add_autoreact_insert(i)
        \/ add_autoreact_push(i)
        \/ remove_autoreact(i, {"a"})
        \/ remove_autoreact_delete(i)
        \/ remove_autoreact_retain(i)

\* every handler that takes the cache lock
CacheNext ==
    \E i \in Tasks :
        \/ lock(i)
        \/ add_autoreact(i, Triggers)
        \/ add_autoreact_insert(i)
        \/ add_autoreact_push(i)
        \/ remove_autoreact(i, Triggers)
        \/ remove_autoreact_delete(i)
        \/ remove_autoreact_retain(i)
        \/ add_reacts(i)
        \/ add_reacts_read(i)
        \/ add_reacts_react(i)

\* quote reactions and quote commands only, on every message
QuotesNext ==
    \E i \in Tasks :
        \/ lock(i)
        \/ add_quote(i, QuoteMessages)
        \/ message_to_quote_contents(i)
        \/ add_quote_transaction(i)

Init ==
    /\ MainInit
    /\ ReadyIdle
    /\ DispatchInit
    /\ BuilderIdle
    /\ TableRegistered
    /\ ChainInit
    /\ StoreInit
    /\ PollInit

Next ==
    \/ construct
    \/ construct_failed
    \/ client_build
    \/ client_start
    \/ \E i \in Interactions :
        \/ Receive(i)
        \/ Autocomplete(i)
        \/ ProcessCommand(i)
        \/ RunCommand(i)
        \/ Reply(i)
        \/ Ignore(i)

Spec == Init /\ [][Next]_vars

InitBuilder ==
    /\ MainInit
    /\ ReadyIdle
    /\ BuilderInit
    /\ DispatchInit
    /\ TableInit
    /\ ChainInit
    /\ StoreInit
    /\ PollInit

SpecBuilder == InitBuilder /\ [][BuilderNext]_vars

SpecBuilderFair == SpecBuilder /\ WF_vars(BuilderNext)

InitRegistry ==
    /\ mainPc = "running"
    /\ built = Components
    /\ failed = ""
    /\ ReadyIdle
    /\ RegistryInit
    /\ DispatchInit
    /\ TableInit
    /\ ChainInit
    /\ StoreInit
    /\ PollInit

SpecRegistry == InitRegistry /\ [][RegistryNext]_vars

InitReady ==
    /\ mainPc = "running"
    /\ built = Components
    /\ failed = ""
    /\ ReadyInit
    /\ DispatchInit
    /\ BuilderIdle
    /\ TableInit
    /\ ChainInit
    /\ StoreInit
    /\ PollInit

SpecReady == InitReady /\ [][ReadyNext]_vars

InitStores ==
    /\ MainInit
    /\ ReadyIdle
    /\ DispatchInit
    /\ BuilderIdle
    /\ TableInit
    /\ ChainInit
    /\ StoreInit
    /\ PollInit

SpecTable == InitStores /\ [][TableNext]_vars

SpecChain == InitStores /\ [][ChainNext]_vars

(***************************************************************************)
(* The whole bot: startup requests ModLp of the builder and fills the      *)
(* command table, the handler is built and the client started; then        *)
(* commands are dispatched through the table and autocompletes through the *)
(* completion chain.                                                       *)
(***************************************************************************)
\* The handler is built from the builder and handed to the client.
build ==
    /\ mainPc = "startup"
    /\ stack = <<>>
    /\ ~buildError
    /\ mainPc' = "start"
    /\ UNCHANGED <<built, failed>>
    /\ UNCHANGED <<readyVars, storeVars, pollVars, dispatchVars, builderVars, tableVars, chainVars>>

InitBot ==
    /\ MainInit
    /\ ReadyIdle
    /\ DispatchInit
    /\ dependencies = BotGraph
    /\ module_map = {}
    /\ stack = <<>>
    /\ constructed = <<>>
    /\ observed = {}
    /\ requests = 0
    /\ requested = ""
    /\ buildError = FALSE
    /\ registered = <<>>
    /\ looked = NoLookup
    /\ TableInit
    /\ ChainInit
    /\ StoreInit
    /\ PollInit

NextBot ==
    \/ \E m \in Suppliable : pre_supply(m)
    \/ with_module("ModLp")
    \/ add_dependency
    \/ init_ok
    \/ init_failed
    \/ register_commands
    \/ build
    \/ client_start
    \/ \E i \in Interactions :
          \/ Receive(i) /\ interaction'[i].name \in RunnerNames
          \/ RunCommand(i)
          \/ Reply(i)
    \/ \E k \in AutocompleteKeys : Dispatching(mainPc) /\ resolve_begin(k)
    \/ resolve_step
    \/ resolve_unclaimed

SpecBot == InitBot /\ [][NextBot]_vars

(***************************************************************************)
(* Concurrent handlers over the store and the autoreact cache.             *)
(***************************************************************************)
InitDb ==
    /\ mainPc = "running"
    /\ built = Components
    /\ failed = ""
    /\ ReadyIdle
    /\ DispatchInit
    /\ BuilderIdle
    /\ TableInit
    /\ ChainInit
    /\ StoreInit
    /\ PollInit

SpecStore == InitDb /\ [][StoreNext]_vars

SpecCache == InitDb /\ [][CacheNext]_vars

SpecQuotes == InitDb /\ [][QuotesNext]_vars

SpecQueue == InitDb /\ [][QueueNext]_vars

SpecPoll == InitDb /\ [][PollNext]_vars

(***************************************************************************)
(* Claims about the dispatcher                                             *)
(***************************************************************************)
Accepted(s) == SelectSeq(s, LAMBDA q : q.status = "ok")
Lost(s) == SelectSeq(s, LAMBDA q : q.status = "network")
FromDispatcher(s) == SelectSeq(s, LAMBDA q : q.by = "dispatcher")
Suggestions(s) == SelectSeq(s, LAMBDA q : q.kind = "Autocomplete")

IsCommand(i) == interaction[i].type = "ApplicationCommand"
IsAutocomplete(i) == interaction[i].type = "Autocomplete"

\* C1: when a command execution has returned an error and the dispatch has
\* ended, the interaction has received exactly one reply, and that reply is
\* ephemeral and carries the error's message.  Stated for the runs in which the
\* network lost no request, so that only the dispatcher's logic is judged.
C1_ErrorGetsOnePrivateReply ==
    \A i \in Interactions :
        (pc[i] = "done" /\ IsCommand(i) /\ result[i].tag = "Err"
            /\ Lost(sent[i]) = <<>>)
        => /\ Len(Accepted(sent[i])) = 1
           /\ Accepted(sent[i])[1].flags = EPHEMERAL
           /\ Accepted(sent[i])[1].content = result[i].text

C8_OneSuggestionReply ==
    \A i \in Interactions :
        (pc[i] = "done" /\ IsAutocomplete(i)) => Len(Suggestions(sent[i])) = 1

\* C9: when execution returned public text the dispatcher has sent exactly one
\* acknowledgment message, carrying that text and no ephemeral flag; when it
\* returned private text, exactly one carrying that text and the ephemeral flag.
C9_VisibilityFlag ==
    \A i \in Interactions :
        (pc[i] = "done" /\ IsCommand(i) /\ result[i].tag \in {"Public", "Private"})
        => /\ Len(FromDispatcher(sent[i])) = 1
           /\ FromDispatcher(sent[i])[1].kind = "ChannelMessageWithSource"
           /\ FromDispatcher(sent[i])[1].content = result[i].text
           /\ FromDispatcher(sent[i])[1].flags =
                 (IF result[i].tag = "Public" THEN EMPTY ELSE EPHEMERAL)

C9_Witness ==
    \E i \in Interactions :
        /\ pc[i] = "done" /\ result[i].tag = "Public"
        /\ Len(Accepted(sent[i])) = 1 /\ Accepted(sent[i])[1].flags = EMPTY

\* C10: when execution returned no-reply, the requests made for the interaction
\* at the end of the dispatch are exactly those the command had made when it
\* returned: the dispatcher added none.
C10_NoReplyAddsNothing ==
    \A i \in Interactions :
        (pc[i] = "done" /\ IsCommand(i) /\ result[i].tag = "None")
        => sent[i] = sentAtReturn[i]

C10_Witness ==
    \E i \in Interactions :
        /\ pc[i] = "done" /\ IsCommand(i) /\ result[i].tag = "None"
        /\ Len(sent[i]) = 1 /\ sent[i][1].by = "command"

\* The names process_command has an arm for.
Handled ==
    {"lp", "album", "relative", "setrole", "setcreatethreads", "setwebhook",
     "quote", "bday", "bdays", "add_autoreact", "remove_autoreact"}

Deferred(s) ==
    \E k \in 1..Len(s) :
        s[k].kind = "DeferredChannelMessageWithSource" /\ s[k].status = "ok"

Acknowledgments(s) == SelectSeq(s, LAMBDA q : q.kind \in InitialKinds)

\* C12: when a command has deferred and its dispatch has ended, the deferred
\* acknowledgment is the only acknowledgment that was attempted for the
\* interaction, on every path, those where the follow-up send failed included.
C12_DeferNotDuplicated ==
    \A i \in Interactions :
        (pc[i] = "done" /\ IsCommand(i) /\ Deferred(sent[i]))
        => Len(Acknowledgments(sent[i])) = 1

\* C20: a command invoked with a required argument missing or of another
\* type returns an error value to the dispatcher; whatever the arguments of a
\* command invocation are, its handler does not panic.
C20_BadArgumentIsAnError ==
    \A i \in Interactions : IsCommand(i) => pc[i] # "panicked"

(***************************************************************************)
(* Claims about startup                                                    *)
(***************************************************************************)
\* C13: whenever an interaction has been handed to the dispatcher, startup has
\* finished: Handler::new has constructed every part of the handler, no
\* construction failed, and the client has been started.
C13_NoDispatchBeforeStartup ==
    \A i \in Interactions :
        pc[i] # "waiting"
        => /\ mainPc = "running"
           /\ built = Components
           /\ failed = ""

C13_Witness ==
    \E i \in Interactions :
        /\ pc[i] = "done" /\ IsCommand(i) /\ Acknowledged(sent[i])
        /\ mainPc = "running" /\ built = Components

\* C14: when a construction has failed, main has ended, the failing part is
\* not among the constructed ones, the constructed ones are exactly those
\* that precede it, and no interaction has been dispatched.
C14_ConstructionFailureAborts ==
    failed # ""
    => /\ mainPc = "exited"
       /\ \A k \in 1..Len(built) : built[k] # failed
       /\ Len(built) < Len(Components)
       /\ built = SubSeq(Components, 1, Len(built))
       /\ Components[Len(built) + 1] = failed
       /\ \A i \in Interactions : pc[i] = "waiting"

\* Spotify::new fails after the store was opened.
C14_Witness ==
    /\ failed = "Spotify"
    /\ built = <<"db">>
    /\ mainPc = "exited"

\* C16: every definition the platform holds for a descriptor with a scope is
\* held for the guild of that scope, and none of them globally; every
\* definition held for a descriptor without a scope is held globally; no key
\* is held both for a guild and globally; and when ready has completed, every
\* descriptor has its definition.
C16_ScopedRegistration ==
    /\ \A r \in registrations :
          \E k \in 1..Len(Descriptors) :
             /\ Descriptors[k].key = r.key
             /\ IF Descriptors[k].scoped
                THEN r.to = guildEnv /\ r.to # "global"
                ELSE r.to = "global"
    /\ \A r1, r2 \in registrations : r1.key = r2.key => r1.to = r2.to
    /\ lastReady = "completed" =>
          \A k \in 1..Len(Descriptors) :
             \E r \in registrations : r.key = Descriptors[k].key

C16_Witness ==
    /\ lastReady = "completed"
    /\ guildEnv = "g2"
    /\ [key |-> Key("ping", "ChatInput"), to |-> "g2"] \in registrations
    /\ [key |-> Key("lp", "ChatInput"), to |-> "global"] \in registrations
    /\ [key |-> Key("quote", "Message"), to |-> "global"] \in registrations

(***************************************************************************)
(* Claims about the module builder                                         *)
(***************************************************************************)
Constructions(m) == {k \in 1..Len(constructed) : constructed[k] = m}

ClosurePresent(m) ==
    /\ Present(module_map, m)
    /\ \A n \in Modules :
          Reaches(dependencies, m, n) => Present(module_map, n)

\* C3: a module type is constructed at most once however often it is requested
\* (exactly once when it is in the registry), every requester that got it saw
\* the same instance, and the registry holds one entry per type at most.
C3_OneInstancePerType ==
    /\ \A m \in Modules :
          /\ Cardinality(Constructions(m)) <= 1
          /\ Present(module_map, m) =>
                Cardinality(Constructions(m)) =
                   (IF Instance(module_map, m) = Supplied THEN 0 ELSE 1)
    /\ \A o1, o2 \in observed : o1.type = o2.type => o1.instance = o2.instance
    /\ \A e1, e2 \in module_map : e1.type = e2.type => e1 = e2

C3_Witness ==
    \E o1, o2 \in observed :
        /\ o1.type = o2.type
        /\ o1.by \in Modules /\ o2.by \in Modules /\ o1.by # o2.by
        /\ \E o3 \in observed : o3.type = o1.type /\ o3.by = "main"

\* C4: with an acyclic dependency graph, every module is constructed only
\* after each of its declared dependencies has been constructed.
C4_DependenciesFirst ==
    Acyclic(dependencies)
    => \A k \in 1..Len(constructed) :
          \A d \in Range(dependencies[constructed[k]]) :
             \/ \E j \in 1..(k - 1) : constructed[j] = d
             \/ [type |-> d, instance |-> Supplied] \in module_map

\* A no deps (Spotify), B on A (Lastfm), C on A and B (ModLp), C built first.
C4_Witness ==
    /\ Acyclic(dependencies)
    /\ dependencies["Lastfm"] = <<"Spotify">>
    /\ requested = "ModLp" /\ requests = 1 /\ stack = <<>>
    /\ constructed = <<"Spotify", "Lastfm", "Bandcamp", "AlbumLookup", "ModLp">>

\* C5: with an acyclic dependency graph, a module request in progress leads to
\* its return: either an init error was returned, or the requested module and
\* everything it transitively depends on is in the registry.
C5_RequestTerminates ==
    (Acyclic(dependencies) /\ stack # <<>>)
    ~> (stack = <<>> /\ (buildError \/ ClosurePresent(requested)))

C5_Witness ==
    /\ Acyclic(dependencies)
    /\ dependencies["AlbumLookup"] = <<"Spotify", "Bandcamp">>
    /\ requested = "ModLp" /\ stack = <<>> /\ ~buildError
    /\ ClosurePresent("ModLp")

\* C15: a lookup of a type the registry does not hold returns the "module not
\* registered" error value, and the registry after it is the registry before
\* it, still without that type; a lookup of a type it holds returns the one
\* instance the registry holds for the type.
C15_LookupTotal ==
    looked # NoLookup
    => /\ module_map = looked.before
       /\ IF Present(looked.before, looked.type)
          THEN /\ looked.result.tag = "Ok"
               /\ \A e \in module_map :
                     e.type = looked.type => e.instance = looked.result.instance
          ELSE /\ looked.result = NotRegistered
               /\ ~Present(module_map, looked.type)

\* AlbumLookup is asked of a registry that holds only Lastfm.
C15_Witness ==
    /\ looked.type = "AlbumLookup"
    /\ looked.result = NotRegistered
    /\ Present(module_map, "Lastfm") /\ ~Present(module_map, "AlbumLookup")

RegisterSteps(m) == {k \in 1..Len(registered) : registered[k] = m}

\* C17: a module handed to the builder already built is the instance of its
\* type; its register step has run exactly once; its construct function is
\* never called, so every requester of the type, main or a dependent, gets the
\* handed instance; and a request for the OAuth Spotify module that was not
\* handed over returns an error, the module staying absent.
C17_PreSuppliedModule ==
    /\ \A e \in module_map :
          e.instance = Supplied =>
             /\ Cardinality(RegisterSteps(e.type)) = 1
             /\ Constructions(e.type) = {}
             /\ \A o \in observed : o.type = e.type => o.instance = Supplied
    /\ Constructions("SpotifyOAuth") = {}
    /\ (requested = "SpotifyOAuth" /\ stack = <<>>
           /\ ~Present(module_map, "SpotifyOAuth")) => buildError

C17_Witness ==
    /\ [type |-> "SpotifyOAuth", instance |-> Supplied] \in module_map
    /\ \E o \in observed : o.type = "SpotifyOAuth" /\ o.by = "main"
    /\ \E o \in observed : o.type = "SpotifyOAuth" /\ o.by \in Modules
    /\ Cardinality(RegisterSteps("SpotifyOAuth")) = 1
    /\ stack = <<>> /\ ~buildError

\* C18: once startup has completed, no step changes the module registry, the
\* command table or the completion chain, whatever is dispatched.
C18_ImmutableAfterStartup ==
    [][mainPc = "running" =>
          /\ module_map' = module_map
          /\ commands' = commands
          /\ completion_handlers' = completion_handlers]_vars

\* A command was run through the table and an autocomplete claimed by the
\* chain, on a bot whose startup built ModLp and filled the table.
C18_Witness ==
    /\ mainPc = "running"
    /\ Present(module_map, "ModLp")
    /\ get(commands, Key("aoty", "ChatInput")) # NoRunner
    /\ get(commands, Key("lp", "ChatInput")) # NoRunner
    /\ Len(completion_handlers) = 1
    /\ resolving = "claimed"
    /\ \E i \in Interactions :
          pc[i] = "done" /\ result[i].tag = "Err" /\ Len(sent[i]) > 1

(***************************************************************************)
(* Claims about the command table                                          *)
(***************************************************************************)
Insertions(key) == {k \in 1..Len(inserted) : name(inserted[k]) = key}

Latest(S) == CHOOSE k \in S : \A j \in S : j <= k

TableKeys ==
    {name(r) : r \in OtherRunners} \cup {name(Runners[k]) : k \in 1..Len(Runners)}
    \cup {Key("quote", "User"), Key("ping", "ChatInput")}

\* C6: after any sequence of inserts, get(key) is the runner inserted last
\* under that key and the table holds exactly one entry for the key (none, and
\* get finds nothing, when no insert used the key); keys that differ in the
\* invocation kind alone are separate entries.
C6_LastWriteWins ==
    \A key \in TableKeys :
        IF Insertions(key) = {}
        THEN /\ get(commands, key) = NoRunner
             /\ {e \in commands : e.key = key} = {}
        ELSE /\ get(commands, key) = inserted[Latest(Insertions(key))]
             /\ Cardinality({e \in commands : e.key = key}) = 1

C6_Witness ==
    /\ \E a, b, c \in 1..Len(inserted) :
          /\ a < b /\ b < c
          /\ name(inserted[a]) = Key("quote", "ChatInput")
          /\ inserted[a].id = "first"
          /\ name(inserted[b]) = Key("quote", "ChatInput")
          /\ inserted[b].id = "second"
          /\ name(inserted[c]) = Key("quote", "Message")
    /\ get(commands, Key("quote", "ChatInput")).id = "second"
    /\ get(commands, Key("quote", "Message")) # NoRunner

(***************************************************************************)
(* Claims about the completion chain                                       *)
(***************************************************************************)
Owners == {k \in 1..Len(completion_handlers) : completion_handlers[k].key = acKey}

\* C7: resolve invokes the resolvers in registration order, each at most once;
\* every invocation but the last reported not-mine; when one has claimed, it
\* is the first resolver that owns the interaction's key, no later resolver
\* was invoked, and it is the one that responded; when none has claimed, all
\* were invoked and none owns the key.
C7_ResolveInOrder ==
    /\ \A k \in 1..Len(invoked) : invoked[k].resolver = k
    /\ \A k \in 1..(Len(invoked) - 1) : invoked[k].outcome = "false"
    /\ resolving = "claimed" =>
          /\ invoked # <<>>
          /\ invoked[Len(invoked)].outcome = "true"
          /\ Len(invoked) \in Owners
          /\ \A k \in Owners : Len(invoked) <= k
          /\ Len(acSent) = 1
          /\ acSent[1].by = Len(invoked) /\ acSent[1].status = "ok"
    /\ resolving = "unclaimed" =>
          /\ Len(invoked) = Len(completion_handlers)
          /\ Owners = {}

\* [X, Y, Z] with only Z owning the key: X and Y ran as no-ops, Z responded.
C7_Witness ==
    /\ Len(completion_handlers) = 3
    /\ Owners = {3}
    /\ resolving = "claimed"
    /\ invoked = <<[resolver |-> 1, outcome |-> "false"],
                   [resolver |-> 2, outcome |-> "false"],
                   [resolver |-> 3, outcome |-> "true"]>>
    /\ Len(acSent) = 1 /\ acSent[1].by = 3

RequestsBy(k) == SelectSeq(acSent, LAMBDA q : q.by = k)

\* C19: while the chain is being resolved, a resolver invoked on a key that is
\* not its own has reported not-claimed and has made no request at all; and a
\* resolver whose reply was accepted by the platform is one that reported
\* claimed.
C19_ResolverSideEffectFree ==
    resolving # "unclaimed" =>
       \A k \in 1..Len(invoked) :
          LET r == invoked[k].resolver IN
          /\ completion_handlers[r].key # acKey =>
                /\ invoked[k].outcome = "false"
                /\ RequestsBy(r) = <<>>
          /\ Accepted(RequestsBy(r)) # <<>> => invoked[k].outcome = "true"

C19_Witness ==
    /\ Len(invoked) = 2
    /\ completion_handlers[1].key # acKey
    /\ invoked[1].outcome = "false"
    /\ invoked[2].outcome = "true"
    /\ RequestsBy(1) = <<>>
    /\ Len(Accepted(RequestsBy(2))) = 1

(***************************************************************************)
(* Claims about the store and the autoreact cache                          *)
(***************************************************************************)
\* C21: the store mutex is held for synchronous query work only: a task that
\* holds it is not suspended at a network call and is not waiting to take the
\* mutex again (set_guild_field takes it a second time only after
\* ensure_guild_table has released it).
C21_StoreLockOnlyForQueries ==
    \A i \in Tasks : db = i => task[i].pc \notin NetworkAwaits \cup {"lock"}

C21_Witness ==
    \E i, j \in Tasks :
        /\ db = i
        /\ task[i].op = "set_guild_field"
        /\ task[i].args.ensured
        /\ task[j].pc = "contents"

QuotesOf(guild_id) == {q \in quote : q.guild_id = guild_id}
QuoteNumbers(guild_id) == {q.quote_number : q \in QuotesOf(guild_id)}
Numbered ==
    \A g \in StoreGuilds :
        /\ QuoteNumbers(g) = 1..Cardinality(QuotesOf(g))
        /\ \A q1, q2 \in QuotesOf(g) : q1.message_id = q2.message_id => q1 = q2

\* C25: whatever the interleaving of add_quote calls, after every step the
\* quote numbers of each guild are pairwise distinct and are 1..n without a
\* gap and each message is stored at most once; and an add_quote of a message
\* that is already quoted returns no number and leaves the quotes unchanged.
C25_QuoteNumbering ==
    [][/\ Numbered'
       /\ \A i \in Tasks :
            (/\ task[i].op = "add_quote"
             /\ task[i].pc = "locked"
             /\ task'[i].pc = "returned"
             /\ \E q \in quote : q.message_id = task[i].args.message)
            => (task'[i].ret.tag # "Some" /\ quote' = quote)]_vars

C25_Witness ==
    /\ Cardinality(QuotesOf(1)) = 2
    /\ \E i, j \in Tasks :
          /\ i # j
          /\ task[i].ret.tag = "None"
          /\ task[j].ret.tag = "Some"
          /\ task[j].ret.text = 2

Count(s, x) == Cardinality({k \in 1..Len(s) : s[k] = x})
Settled == \A i \in Tasks : task[i].op \notin {"add_autoreact", "remove_autoreact"}

\* C24: once every add_autoreact and remove_autoreact call has returned, the
\* autoreacts cached for each guild are exactly the autoreact rows stored for
\* it, each as many times as it is stored.
C24_CacheEqualsStore ==
    Settled =>
       \A g \in StoreGuilds :
          \A ar \in Range(new(autoreact)[g]) \cup Range(reacts_cache[g]) :
             Count(reacts_cache[g], ar) = Count(new(autoreact)[g], ar)

\* C30: no task is suspended at a network call while it holds a guard of the
\* autoreact cache lock.
C30_CacheLockNotHeldOverNetwork ==
    \A i \in Tasks : task[i].pc \in NetworkAwaits => i \notin cache_readers

(***************************************************************************)
(* Claims about cyclic dependency declarations                             *)
(***************************************************************************)
OnCycle(m) == Reaches(dependencies, m, m)

InitialResponses(s) == SelectSeq(s, LAMBDA q : q.kind \in InitialKinds)

\* C23: an lp command that ran to its end without an error has had exactly
\* one interaction response requested for it, by the command itself and
\* accepted: the listening-party message when no webhook is configured, the
\* "LP created" message when one is; the dispatcher has added none.
C23_LpRespondsOnce ==
    \A i \in Interactions :
        (/\ IsCommand(i)
         /\ interaction[i].name = "lp"
         /\ pc[i] \in {"executed", "done"}
         /\ result[i] = None)
        => /\ Len(InitialResponses(sent[i])) = 1
           /\ InitialResponses(sent[i])[1].by = "command"
           /\ InitialResponses(sent[i])[1].status = "ok"
           /\ InitialResponses(sent[i])[1].content \in {"resp_content", "LP created"}
           /\ FromDispatcher(sent[i]) = <<>>

\* the webhook case, handled to the end
C23_Witness ==
    \E i \in Interactions :
        /\ IsCommand(i)
        /\ interaction[i].name = "lp"
        /\ pc[i] = "done"
        /\ result[i] = None
        /\ Len(sent[i]) = 1
        /\ sent[i][1].content = "LP created"
        /\ sent[i][1].status = "ok"

(***************************************************************************)
(* Claims about ready polls                                                *)
(***************************************************************************)
\* C26: the pending queue never holds more than MAX_POLLS entries.
C26_QueueBounded == Len(ready_polls) <= MAX_POLLS

Shown(e) == poll_messages[e.id].content

\* C27: once every reaction handler has finished, the message of a poll whose
\* entry is in the queue shows build_message of the entry's ready list (for
\* the polls whose entry was never queued again by a handler and none of
\* whose edits failed).
C27_MessageShowsReadyList ==
    (\A i \in Tasks : Free(i)) =>
        \A k \in 1..Len(ready_polls) :
            LET e == ready_polls[k] IN
            (/\ e.id \notin recreated
             /\ e.id \notin lost_edits
             /\ Shown(e) # "")
            => Shown(e) = build_message(e.usernames)

CountdownsOf(id) == {k \in 1..Len(countdowns) : countdowns[k].id = id}

\* C28: no poll message has had more than one countdown started for it.
C28_OneCountdownPerPoll ==
    \A id \in 1..Len(poll_messages) : Cardinality(CountdownsOf(id)) <= 1

InList(e, user_id) ==
    \E k \in 1..Len(e.usernames) : e.usernames[k] = username(user_id)

Distinct(s) == \A a, b \in 1..Len(s) : s[a] = s[b] => a = b

====
